---- MODULE Spec2Model ----
(***************************************************************************)
(* Model of the mapwhere backend (api/consumers.py, api/models.py): the    *)
(* ChatConsumer command handlers as asyncio tasks over the persisted rows  *)
(* (room members, privacy, join requests, location bubbles, stored         *)
(* intersection, notifications, messages).                                 *)
(*                                                                         *)
(* Granularity: receive() only spawns a task (asyncio.create_task); every  *)
(* `await database_sync_to_async(f)()` of a handler is one step, and the   *)
(* channel-layer sends that follow it are one step.  A consumer keeps its  *)
(* user and room for the life of its connection, so a task carries them;   *)
(* any user may hold a connection to any room, served by one of the worker *)
(* processes.  The synchronous functions of one process run one at a time, *)
(* those of different processes interleave statement by statement.  The    *)
(* functions split into statements here are get_or_create and              *)
(* update_or_create (a SELECT, then an INSERT) and the place-id refresh (a *)
(* SELECT, then a save of the row read), since JoinRequest and             *)
(* LocationBubble declare no uniqueness constraint and take no lock on a   *)
(* row that does not exist.                                                *)
(***************************************************************************)
EXTENDS Integers, Sequences, FiniteSets, TLC

Users == {"u1", "u2", "u3"}

Rooms == {"r1", "r2"}

Workers == {"w1", "w2"}

\* bounds of the exploration: concurrent tasks, stored messages per room,
\* and the number of commands received in a run of each slice of the system
MaxTasks == 2

MaxMsgs == 1

MaxCmds == 3

MaxAccessCmds == 4

MaxAreaCmds == 5

MaxJoinCmds == 4

MaxFoldCmds == 3

MaxFanoutCmds == 3

MaxSaved == 2

MaxProfileCmds == 3

MaxRegionCmds == 1

MaxStamps == 3

MaxInboxCmds == 3

MaxPlaceCmds == 4

MaxApproveCmds == 3

MaxLayerCmds == 2

MaxRecomputeCmds == 2

MaxBatchCmds == 2

MaxOrderCmds == 3

MaxMergeCmds == 2

MaxRejoinCmds == 2

MaxExitCmds == 3

MaxLeaveCmds == 3

MaxApproveAllCmds == 3

TaskIds == 1..MaxTasks

\* payloads of update_intersection: two geometries, and one the model's
\* full_clean rejects (a type outside TYPE_CHOICES)
AreaVals == {"a1", "a2"}

AreaPayloads == AreaVals \cup {"bad"}

\* the plane as cells: an isochrone geometry is a set of cells
Cells == {1, 2}

Geoms == (SUBSET Cells) \ {{}}

\* service_regions, in the order the handler queries them (three of nine:
\* the two regions without transit data and one with)
ServiceRegions == <<"africa", "central_america", "asia">>

Regions == {ServiceRegions[i] : i \in DOMAIN ServiceRegions}

TravelModes == <<"walk", "transit">>

\* resolved areas of the region isochrones
Areas == {1, 2}

\* place ids: the one a client submits and the one a refresh returns
PlaceIds == {"p1", "p2"}

\* the coordinates (lat, lng) a client submits with a place
Coords == {1, 2}

Hours == {0, 1, 3}

Minutes == {0, 30}

Transportations == {"walk", "transit"}

\* the payloads of update_location_bubble in the slices that are not about
\* the content of a row: one the model accepts and one it rejects
AreaHours == {0, 1}

AreaMinutes == {0}

AreaTransportations == {"walk"}

GuardedCmds == {"fetch_messages", "fetch_allowed_status", "join_room",
                "update_privacy", "message", "update_location_bubble",
                "exit_room", "calculate_intersection", "update_intersection",
                "delete_intersection", "fetch_location_bubble",
                "save_place", "vote_place", "fetch_places",
                "approve_user", "approve_all_users", "reject_user"}

UnguardedCmds == {"fetch_join_requests", "fetch_user_notifications"}

Cmds == GuardedCmds \cup UnguardedCmds

NotificationKinds == {"message", "user_joined", "user_left", "join_request",
                      "now_public", "now_private", "user_location",
                      "added_place", "voted_place"}

VARIABLES
    members,        \* Room.members: room -> set of users
    private,        \* Room.private
    joinRequests,   \* JoinRequest rows: room -> user -> number of rows
    bubbles,        \* LocationBubble rows: room -> user -> rows, by id
    intersection,   \* Intersection row of a room: "none" or its payload
    notifications,  \* Notification rows [user, room, kind]
    messages,       \* Message rows: room -> number of rows
    task,           \* handler tasks spawned by receive()
    ncmd,           \* commands received so far
    attempt,        \* a Notification being saved: the kinds it has set
    stored,         \* the kinds of the Notification rows saved so far
    display_name,   \* User.display_name: user -> text, "" when unset
    inbox,          \* Notification rows by [user, room, timestamp, read]
    clock,          \* the time of the last timestamp handed out
    fetched,        \* user -> the room and list of the last notifications event
    places,         \* Place rows [id, room, place_id, coord, last_saved]
    votes,          \* Vote rows [room, user, place]
    roomRows,       \* the ids that have a Room row
    conns,          \* the websocket connections
    groups          \* channel layer groups: <<group name, connection>>

vars == <<members, private, joinRequests, bubbles, intersection, notifications,
          messages, task, ncmd, attempt, stored, display_name, inbox, clock,
          fetched, places, votes, roomRows, conns, groups>>

dbVars == <<members, private, joinRequests, bubbles, intersection,
            notifications, messages>>

notifVars == <<attempt, stored>>

inboxVars == <<inbox, clock, fetched>>

placeVars == <<places, votes>>

layerVars == <<roomRows, conns, groups>>

\* the state the handlers of the first slices leave alone
restVars == <<display_name, inboxVars, placeVars, layerVars>>

IdleTask == [cmd |-> "idle", proc |-> "none", user |-> "none", room |-> "none",
             arg |-> "none", pc |-> "idle", denied |-> "unk",
             created |-> FALSE, prev |-> 0, added |-> FALSE, rooms |-> {},
             bub |-> {}, nmem |-> 0, region |-> "none", resp |-> <<>>,
             row |-> <<>>, payload |-> <<>>, invalid |-> FALSE,
             sent |-> {}, bcast |-> {}, iso |-> <<>>,
             na |-> "unk", nroom |-> "none", need |-> {},
             wrote |-> FALSE, mutated |-> FALSE, profiled |-> FALSE,
             login |-> 0, list |-> <<>>, conn |-> "none", group |-> "none",
             heard |-> {}, req |-> <<>>, emitted |-> 0, to |-> {}]

\* the websocket connections of the slices that open and close them
Conns == {"c1", "c2"}

\* a connection before connect() and after the socket has closed
Closed == [state |-> "closed", proc |-> "none", user |-> "none",
           name |-> "none", room |-> "none", id |-> "none"]

-----------------------------------------------------------------------------
(* Pure helpers *)

YesNo(b) == IF b THEN "yes" ELSE "no"

\* a LocationBubble row
Row(hours, minutes, transportation, region, place_id) ==
    [hours |-> hours, minutes |-> minutes, transportation |-> transportation,
     region |-> region, place_id |-> place_id]

\* the users with a LocationBubble row in a room
BubbleOwners(r) == {u \in Users : bubbles[r][u] # <<>>}

\* room.locationbubble_set.all(): one entry per row
RoomRows(r) == UNION {{<<u, i>> : i \in DOMAIN bubbles[r][u]} : u \in Users}

UserIsNotRoomMember(u, r) == u \notin members[r]

UserNotAllowed(u, r) == UserIsNotRoomMember(u, r) /\ private[r]

\* get_rooms_of_all_members over a given membership relation
RoomsOfAllMembers(mem, r) == {x \in Rooms : \E u \in mem[r] : u \in mem[x]}

GetRoomsOfAllMembers(r) == RoomsOfAllMembers(members, r)

\* Notification.clean: TRUE when the write is accepted.  The eight fields the
\* method names are tested; voted_place is not among them.
NotificationClean(kinds) ==
    LET checked == kinds \ {"voted_place"}
    IN  ~ ( checked = {}
            \/ \E k \in checked : (checked \ {k}) # {} )

\* Notification.objects.create(user=u, room=r, <kind>=...) for every u in us
CreateNotifications(rows, us, r, kind) ==
    IF NotificationClean({kind})
    THEN rows \cup {[user |-> u, room |-> r, kind |-> kind] : u \in us}
    ELSE rows

\* Notification.objects.create(user=u, room=r, <kind>=...): timestamp is
\* auto_now_add and read defaults to False
NotificationRow(u, r, kind, ts) ==
    [user |-> u, room |-> r, kind |-> kind, timestamp |-> ts, read |-> FALSE]

\* a clean without the two-hour limit
LocationBubbleClean_NoLimit(hours, minutes, transportation, region) ==
    /\ ~ (hours = 0 /\ minutes = 0)
    /\ ~ (region \in {"africa", "central_america"} /\ transportation = "transit")

\* a clean that asks nothing about the region
LocationBubbleClean_AnyRegion(hours, minutes, transportation, region) ==
    /\ ~ (hours = 0 /\ minutes = 0)
    /\ ~ ((hours * 3600) + (minutes * 60) > 7200)

\* LocationBubble.clean: TRUE when the write is accepted
LocationBubbleClean(hours, minutes, transportation, region) ==
    /\ ~ (hours = 0 /\ minutes = 0)
    /\ ~ (region \in {"africa", "central_america"} /\ transportation = "transit")
    /\ ~ ((hours * 3600) + (minutes * 60) > 7200)

\* the fields of the users, as the token of each sets them: one user with a
\* name, one with an email address only, one with neither
FullName == [u \in Users |-> IF u = "u3" THEN "Cy Doe" ELSE ""]

Email == [u \in Users |-> IF u = "u2" THEN "bo@example.org" ELSE ""]

PhoneNumber == [u \in Users |-> ""]

Username == [u \in Users |-> u]

\* get_full_name() or email or phone_number or username
Fallback(u) ==
    IF FullName[u] # "" THEN FullName[u]
    ELSE IF Email[u] # "" THEN Email[u]
    ELSE IF PhoneNumber[u] # "" THEN PhoneNumber[u]
    ELSE Username[u]

\* the display names after create_user_joined_notification_for_all_room_
\* members(user_joining) run by the consumer of issuer.  own_object is the
\* test `user_joining is self.user`: TRUE for the self.user that join_room
\* passes, FALSE for an object fetched from the database, whoever it is
NameOnJoin(issuer, own_object) ==
    IF own_object /\ display_name[issuer] = ""
    THEN [display_name EXCEPT ![issuer] = Fallback(issuer)]
    ELSE display_name

\* the condition of get_isochrones on the rows and members it read
EnoughBubbles(nmembers, nbubbles) ==
    /\ nbubbles > 0
    /\ \/ (nmembers > 1 /\ nbubbles > 1)
       \/ (nmembers = 1 /\ nbubbles = 1)

Set(t, rec) == task' = [task EXCEPT ![t] = rec]

\* the spellings of a room id in the URL of a connection, and the UUID that
\* UUIDField.to_python makes of each; str() of a UUID is the first spelling
Spellings == {"r1", "R1"}

ToUUID(name) == IF name = "R1" THEN "r1" ELSE name

\* the channels in a group of the channel layer
Recipients(group) == {c \in Conns : <<group, c>> \in groups}

\* a task inside a synchronous function holds its process's database thread
MidSync == {"jr_create", "ulb_create", "ulb_save", "flb_save", "jn_write",
            "msg_notify", "aa_delete"}

DbFree(t) ==
    \A o \in TaskIds \ {t} :
        task[o].proc = task[t].proc => task[o].pc \notin MidSync

At(t, pc) == task[t].pc = pc /\ DbFree(t)

-----------------------------------------------------------------------------
Init ==
    /\ members = [r \in Rooms |-> {}]
    /\ private = [r \in Rooms |-> FALSE]
    /\ joinRequests = [r \in Rooms |-> [u \in Users |-> 0]]
    /\ bubbles = [r \in Rooms |-> [u \in Users |-> <<>>]]
    /\ intersection = [r \in Rooms |-> "none"]
    /\ notifications = {}
    /\ messages = [r \in Rooms |-> 0]
    /\ task = [t \in TaskIds |-> IdleTask]
    /\ ncmd = 0
    /\ attempt = {}
    /\ stored = {}
    /\ display_name = [u \in Users |-> ""]
    /\ inbox = {}
    /\ clock = 0
    /\ fetched = [u \in Users |-> <<>>]
    /\ places = {}
    /\ votes = {}
    /\ roomRows = Rooms
    /\ conns = [c \in Conns |-> Closed]
    /\ groups = {}

-----------------------------------------------------------------------------
(* receive *)

ArgsOf(cmd) ==
    IF cmd = "exit_room" THEN Rooms
    ELSE IF cmd = "update_privacy" THEN {"private", "public"}
    ELSE IF cmd = "update_intersection" THEN AreaPayloads
    ELSE {"none"}

FirstPc(cmd) ==
    IF cmd \in GuardedCmds THEN "check"
    ELSE IF cmd = "fetch_user_notifications" THEN "fun_unread"
    ELSE "fjr"

FreeTask == CHOOSE t \in TaskIds :
                /\ task[t].cmd = "idle"
                /\ \A o \in TaskIds : task[o].cmd = "idle" => t <= o

MessagesInFlight(r) ==
    Cardinality({t \in TaskIds : task[t].cmd = "message" /\ task[t].room = r
                                 /\ task[t].pc \in {"check", "msg_write"}})

\* receive on a connection of user u to room r served by process w: the
\* command is dispatched to a new task
Receive(w, u, r, cmd, arg) ==
    /\ \E t \in TaskIds : task[t].cmd = "idle"
    /\ cmd = "message" => messages[r] + MessagesInFlight(r) < MaxMsgs
    /\ Set(FreeTask, [IdleTask EXCEPT !.cmd = cmd, !.proc = w, !.user = u,
                         !.room = r, !.group = r, !.arg = arg,
                         !.pc = FirstPc(cmd)])
    /\ ncmd' = ncmd + 1
    /\ UNCHANGED <<dbVars, notifVars, restVars>>

\* the task object is dropped once its coroutine has returned or raised
Reap(t) ==
    /\ task[t].pc \in {"done", "failed"}
    /\ Set(t, IdleTask)
    /\ UNCHANGED <<dbVars, ncmd, notifVars, restVars>>

-----------------------------------------------------------------------------
(* connect, disconnect *)

\* connect() up to get_room: room_group_name is the URL text, and
\* Room.objects.get_or_create(id=room_group_name) returns the stored row,
\* whose id is a UUID, or a new row, whose id is the text it was given
ConnectGetRoom(c, w, u, name) ==
    /\ conns[c].state = "closed"
    /\ LET uuid == ToUUID(name)
       IN  /\ roomRows' = roomRows \cup {uuid}
           /\ conns' = [conns EXCEPT ![c] =
                  [state |-> "joining", proc |-> w, user |-> u, name |-> name,
                   room |-> uuid,
                   id |-> IF uuid \in roomRows THEN uuid ELSE name]]
    /\ UNCHANGED <<dbVars, task, ncmd, notifVars, display_name, inboxVars,
                   placeVars, groups>>

\* group_add(str(self.room.id), self.channel_name), then accept()
ConnectGroupAdd(c) ==
    /\ conns[c].state = "joining"
    /\ groups' = groups \cup {<<conns[c].id, c>>}
    /\ conns' = [conns EXCEPT ![c].state = "open"]
    /\ UNCHANGED <<dbVars, task, ncmd, notifVars, display_name, inboxVars,
                   placeVars, roomRows>>

\* a disconnect that also cancels the tasks the connection has spawned
Disconnect_Cancelling(c) ==
    /\ conns[c].state = "open"
    /\ groups' = groups \ {<<conns[c].name, c>>}
    /\ conns' = [conns EXCEPT ![c].state = "gone"]
    /\ task' = [t \in TaskIds |->
                   IF task[t].conn = c /\ task[t].pc \notin {"done", "failed"}
                   THEN [task[t] EXCEPT !.pc = "cancelled"] ELSE task[t]]
    /\ UNCHANGED <<dbVars, ncmd, notifVars, display_name, inboxVars,
                   placeVars, roomRows>>

\* disconnect(): group_discard(self.room_group_name, self.channel_name);
\* the tasks receive() has created are not awaited or cancelled
Disconnect(c) ==
    /\ conns[c].state = "open"
    /\ groups' = groups \ {<<conns[c].name, c>>}
    /\ conns' = [conns EXCEPT ![c].state = "gone"]
    /\ UNCHANGED <<dbVars, task, ncmd, notifVars, display_name, inboxVars,
                   placeVars, roomRows>>

\* receive on an accepted connection
ReceiveOn(c, cmd, arg) ==
    /\ conns[c].state = "open"
    /\ \E t \in TaskIds : task[t].cmd = "idle"
    /\ Set(FreeTask, [IdleTask EXCEPT !.cmd = cmd, !.proc = conns[c].proc,
                         !.user = conns[c].user, !.room = conns[c].room,
                         !.group = conns[c].name, !.conn = c, !.arg = arg,
                         !.pc = FirstPc(cmd)])
    /\ ncmd' = ncmd + 1
    /\ UNCHANGED <<dbVars, notifVars, restVars>>

-----------------------------------------------------------------------------
(* The authorization check that opens a guarded handler *)

BodyPc(cmd) ==
    CASE cmd = "fetch_messages" -> "fm"
      [] cmd = "fetch_allowed_status" -> "done"
      [] cmd = "join_room" -> "jn_prev"
      [] cmd = "update_privacy" -> "up_write"
      [] cmd = "message" -> "msg_write"
      [] cmd = "update_location_bubble" -> "ulb_region"
      [] cmd = "exit_room" -> "ex_rooms"
      [] cmd = "calculate_intersection" -> "ci_bubbles"
      [] cmd = "update_intersection" -> "ui_write"
      [] cmd = "delete_intersection" -> "area_del"
      [] cmd = "fetch_location_bubble" -> "flb_read"
      [] cmd = "approve_user" -> "ap_write"
      [] cmd = "approve_all_users" -> "aa_write"
      [] cmd = "reject_user" -> "rj_write"
      [] cmd = "save_place" -> "sp_write"
      [] cmd = "vote_place" -> "vp_write"
      [] cmd = "fetch_places" -> "fp_list"

DeniedPc(cmd) ==
    IF cmd \in {"join_room", "fetch_allowed_status"} THEN "jr_get" ELSE "done"

AllowedReply(cmd) ==
    IF cmd \in {"join_room", "fetch_allowed_status"} THEN {"allowed"} ELSE {}

Check(t) ==
    /\ At(t, "check")
    /\ LET tk == task[t]
           d == UserNotAllowed(tk.user, tk.room)
       IN  Set(t, [tk EXCEPT !.denied = YesNo(d), !.na = YesNo(d),
                      !.pc = IF d THEN DeniedPc(tk.cmd) ELSE BodyPc(tk.cmd),
                      !.sent = IF d THEN @ ELSE @ \cup AllowedReply(tk.cmd)])
    /\ UNCHANGED <<dbVars, ncmd, notifVars, restVars>>

-----------------------------------------------------------------------------
(* fetch_messages, fetch_join_requests *)

\* fetch_messages(): one fetching_message event per stored message
FetchMessages(t) ==
    /\ At(t, "fm")
    /\ LET tk == task[t]
       IN  Set(t, [tk EXCEPT !.pc = "done",
                      !.sent = IF messages[tk.room] > 0
                               THEN @ \cup {"fetching_message"} ELSE @])
    /\ UNCHANGED <<dbVars, ncmd, notifVars, restVars>>

\* receive dispatches fetch_join_requests to fetch_join_requests(), which
\* asks nothing about the issuer; na records whether the issuer was a
\* non-member of a private room when the rows were read
FetchJoinRequests(t) ==
    /\ At(t, "fjr")
    /\ LET tk == task[t]
       IN  Set(t, [tk EXCEPT !.pc = "done",
                      !.na = YesNo(UserNotAllowed(tk.user, tk.room)),
                      !.sent = @ \cup {"requests"}])
    /\ UNCHANGED <<dbVars, ncmd, notifVars, restVars>>

-----------------------------------------------------------------------------
(* join requests: get_or_create_new_join_request *)

\* JoinRequest.objects.get_or_create, the SELECT: one row is returned, no row
\* leads to the INSERT, several rows raise MultipleObjectsReturned
GetJoinRequest(t) ==
    /\ At(t, "jr_get")
    /\ LET tk == task[t]
           n == joinRequests[tk.room][tk.user]
       IN  Set(t, [tk EXCEPT !.pc = IF n = 0 THEN "jr_create"
                                    ELSE IF n = 1 THEN "fanout"
                                    ELSE "failed"])
    /\ UNCHANGED <<dbVars, ncmd, notifVars, restVars>>

\* the INSERT, then create_join_request_notification_for_all_room_members
CreateJoinRequest(t) ==
    /\ task[t].pc = "jr_create"
    /\ LET tk == task[t]
       IN  /\ joinRequests' = [joinRequests EXCEPT ![tk.room][tk.user] = @ + 1]
           /\ notifications' = CreateNotifications(notifications,
                                   members[tk.room], tk.room, "join_request")
           /\ Set(t, [tk EXCEPT !.pc = "rooms", !.created = TRUE,
                          !.nroom = IF members[tk.room] # {} THEN tk.room ELSE @])
    /\ UNCHANGED <<members, private, bubbles, intersection, messages, ncmd, notifVars, restVars>>

-----------------------------------------------------------------------------
(* get_rooms_of_all_members and the broadcasts that end a handler *)

GetRooms(t) ==
    /\ At(t, "rooms")
    /\ LET tk == task[t]
       IN  Set(t, [tk EXCEPT !.pc = "fanout",
                      !.rooms = GetRoomsOfAllMembers(tk.room),
                      !.need = IF tk.nroom # "none"
                               THEN GetRoomsOfAllMembers(tk.nroom) ELSE @])
    /\ UNCHANGED <<dbVars, ncmd, notifVars, restVars>>

RefreshNotifications(rs) == {<<x, "refresh_notifications">> : x \in rs}

\* the group_send calls that close each handler, as <<group, type>>
FanOutEvents(tk) ==
    CASE tk.denied = "yes" ->
             RefreshNotifications(tk.rooms)
             \cup {<<tk.room, "refresh_join_requests">>}
      [] tk.denied # "yes" /\ tk.cmd = "join_room" ->
             RefreshNotifications(tk.rooms)
             \cup {<<tk.room, "refresh_members">>,
                   <<tk.room, "refresh_users_missing_locations">>}
      [] tk.denied # "yes" /\ tk.cmd = "update_privacy" ->
             RefreshNotifications(tk.rooms)
             \cup {<<tk.room, "refresh_privacy">>}
      [] tk.denied # "yes" /\ tk.cmd = "message" ->
             RefreshNotifications(tk.rooms)
             \cup {<<tk.room, "chat_message">>}
      [] tk.denied # "yes" /\ tk.cmd = "update_location_bubble" ->
             RefreshNotifications(tk.rooms)
             \cup {<<tk.room, "recalculate_intersection">>}
             \cup {<<x, "refresh_users_missing_locations">> : x \in tk.rooms}
      [] tk.denied # "yes" /\ tk.cmd \in {"approve_user", "approve_all_users"} ->
             RefreshNotifications(tk.rooms)
             \cup {<<tk.room, e>> : e \in
                      {"refresh_join_requests", "refresh_members",
                       "refresh_allowed_status", "refresh_chat",
                       "refresh_room_name", "refresh_privacy",
                       "refresh_users_missing_locations"}}
      [] tk.denied # "yes" /\ tk.cmd = "reject_user" ->
             {<<tk.room, "refresh_join_requests">>}
      [] tk.denied # "yes" /\ tk.cmd = "exit_room" ->
             RefreshNotifications(tk.rooms)
             \cup {<<tk.arg, "refresh_members">>,
                   <<tk.arg, "refresh_users_missing_locations">>,
                   <<tk.arg, "recalculate_intersection">>,
                   <<tk.arg, "refresh_allowed_status">>}

FanOut(t) ==
    /\ task[t].pc = "fanout"
    /\ LET tk == task[t]
       IN  Set(t, [tk EXCEPT !.pc = "done",
                      !.bcast = @ \cup FanOutEvents(tk),
                      !.sent = IF tk.denied = "yes"
                               THEN @ \cup {"not_allowed"} ELSE @])
    /\ UNCHANGED <<dbVars, ncmd, notifVars, restVars>>

-----------------------------------------------------------------------------
(* join_room, the allowed branch *)

\* previous_members = get_room_members()
JoinPrevious(t) ==
    /\ At(t, "jn_prev")
    /\ Set(t, [task[t] EXCEPT !.pc = "jn_add",
                  !.prev = Cardinality(members[task[t].room])])
    /\ UNCHANGED <<dbVars, ncmd, notifVars, restVars>>

\* update_room_members followed by a test of previous_members that also
\* holds for a room of two or more members
UpdateRoomMembers_AnyPrevious(t) ==
    /\ At(t, "jn_add")
    /\ LET tk == task[t]
           add == tk.user \notin members[tk.room]
           mem == IF add THEN members[tk.room] \cup {tk.user}
                  ELSE members[tk.room]
       IN  /\ members' = [members EXCEPT ![tk.room] = mem]
           /\ notifications' =
                  IF add THEN CreateNotifications(notifications, mem, tk.room,
                                                  "user_joined")
                  ELSE notifications
           /\ display_name' = IF add THEN NameOnJoin(tk.user, TRUE)
                              ELSE display_name
           /\ Set(t, [tk EXCEPT
                  !.added = add,
                  !.mutated = add,
                  !.nroom = IF add THEN tk.room ELSE @,
                  !.profiled = add /\ (BubbleOwners(tk.room) \cap members[tk.room]) # {},
                  !.pc = IF add /\ tk.prev >= 1 THEN "area_del" ELSE "rooms"])
    /\ UNCHANGED <<private, joinRequests, bubbles, intersection, messages,
                   ncmd, notifVars, inboxVars, placeVars, layerVars>>

\* update_room_members(room, user)
UpdateRoomMembers(t) ==
    /\ At(t, "jn_add")
    /\ LET tk == task[t]
           add == tk.user \notin members[tk.room]
           mem == IF add THEN members[tk.room] \cup {tk.user}
                  ELSE members[tk.room]
       IN  /\ members' = [members EXCEPT ![tk.room] = mem]
           /\ notifications' =
                  IF add THEN CreateNotifications(notifications, mem, tk.room,
                                                  "user_joined")
                  ELSE notifications
           /\ display_name' = IF add THEN NameOnJoin(tk.user, TRUE)
                              ELSE display_name
           /\ Set(t, [tk EXCEPT
                  !.added = add,
                  !.mutated = add,
                  !.nroom = IF add THEN tk.room ELSE @,
                  !.profiled = add /\ (BubbleOwners(tk.room) \cap members[tk.room]) # {},
                  !.pc = IF add /\ tk.prev = 1 THEN "area_del" ELSE "rooms"])
    /\ UNCHANGED <<private, joinRequests, bubbles, intersection, messages,
                   ncmd, notifVars, inboxVars, placeVars, layerVars>>

\* update_room_members statement by statement, as the handlers of another
\* process see it: the test `user not in room.members.all()` ...
ReadRoomMembers(t) ==
    /\ At(t, "jn_add")
    /\ LET tk == task[t]
       IN  Set(t, [tk EXCEPT !.pc = IF tk.user \notin members[tk.room]
                                    THEN "jn_write" ELSE "rooms"])
    /\ UNCHANGED <<dbVars, ncmd, notifVars, restVars>>

\* ... then room.members.add(user), which leaves a row that is there alone,
\* and create_user_joined_notification_for_all_room_members: a Notification,
\* with its timestamp, for every member
AddRoomMember(t) ==
    /\ task[t].pc = "jn_write"
    /\ clock < MaxStamps
    /\ LET tk == task[t]
           mem == members[tk.room] \cup {tk.user}
       IN  /\ members' = [members EXCEPT ![tk.room] = mem]
           /\ notifications' = CreateNotifications(notifications, mem, tk.room,
                                                   "user_joined")
           /\ inbox' = inbox \cup {NotificationRow(u, tk.room, "user_joined",
                                                   clock + 1) : u \in mem}
           /\ clock' = clock + 1
           /\ display_name' = NameOnJoin(tk.user, TRUE)
           /\ Set(t, [tk EXCEPT
                  !.added = TRUE,
                  !.mutated = TRUE,
                  !.nroom = tk.room,
                  !.profiled = (BubbleOwners(tk.room) \cap members[tk.room]) # {},
                  !.pc = IF tk.prev = 1 THEN "area_del" ELSE "rooms"])
    /\ UNCHANGED <<private, joinRequests, bubbles, intersection, messages,
                   ncmd, notifVars, fetched, placeVars, layerVars>>

-----------------------------------------------------------------------------
(* the stored intersection *)

AfterAreaBroadcast(cmd) == IF cmd = "join_room" THEN "rooms" ELSE "done"

\* a deletion whose handler goes on without the refresh_area group_send
DeleteIntersectionForRoom_Silent(t) ==
    /\ At(t, "area_del")
    /\ intersection' = [intersection EXCEPT ![task[t].room] = "none"]
    /\ Set(t, [task[t] EXCEPT !.pc = AfterAreaBroadcast(task[t].cmd),
                  !.wrote = TRUE, !.mutated = TRUE])
    /\ UNCHANGED <<members, private, joinRequests, bubbles, notifications,
                   messages, ncmd, notifVars, restVars>>

\* delete_intersection_for_room: in join_room, in handle_delete_intersection
\* and in the else branch of get_isochrones
DeleteIntersectionForRoom(t) ==
    /\ At(t, "area_del")
    /\ intersection' = [intersection EXCEPT ![task[t].room] = "none"]
    /\ Set(t, [task[t] EXCEPT !.pc = "area_bcast", !.wrote = TRUE,
                  !.mutated = TRUE])
    /\ UNCHANGED <<members, private, joinRequests, bubbles, notifications,
                   messages, ncmd, notifVars, restVars>>

\* a handler that goes on to its group_send without the write
UpdateRoomIntersection_Unwritten(t) ==
    /\ At(t, "ui_write")
    /\ Set(t, [task[t] EXCEPT !.pc = "area_bcast"])
    /\ UNCHANGED <<dbVars, ncmd, notifVars, restVars>>

\* update_room_intersection: Intersection.objects.update_or_create, whose
\* save() runs full_clean and raises on a type outside TYPE_CHOICES
UpdateRoomIntersection(t) ==
    /\ At(t, "ui_write")
    /\ LET tk == task[t]
       IN  IF tk.arg \in AreaVals
           THEN /\ intersection' = [intersection EXCEPT ![tk.room] = tk.arg]
                /\ Set(t, [tk EXCEPT !.pc = "area_bcast", !.wrote = TRUE,
                              !.mutated = TRUE])
           ELSE /\ intersection' = intersection
                /\ Set(t, [tk EXCEPT !.pc = "failed"])
    /\ UNCHANGED <<members, private, joinRequests, bubbles, notifications,
                   messages, ncmd, notifVars, restVars>>

\* group_send(room_group_name, refresh_area): the event goes to the
\* channels that are in the group of that name
BroadcastRefreshArea(t) ==
    /\ task[t].pc = "area_bcast"
    /\ LET tk == task[t]
       IN  Set(t, [tk EXCEPT !.pc = AfterAreaBroadcast(tk.cmd),
                      !.bcast = @ \cup {<<tk.group, "refresh_area">>},
                      !.heard = @ \cup Recipients(tk.group)])
    /\ UNCHANGED <<dbVars, ncmd, notifVars, restVars>>

-----------------------------------------------------------------------------
(* update_privacy, new message *)

UpdatePrivacy(t) ==
    /\ At(t, "up_write")
    /\ LET tk == task[t]
           p == (tk.arg = "private")
       IN  /\ private' = [private EXCEPT ![tk.room] = p]
           /\ notifications' = CreateNotifications(notifications,
                                   members[tk.room], tk.room,
                                   IF p THEN "now_private" ELSE "now_public")
           /\ Set(t, [tk EXCEPT !.pc = "rooms", !.mutated = TRUE,
                          !.nroom = IF members[tk.room] # {} THEN tk.room ELSE @])
    /\ UNCHANGED <<members, joinRequests, bubbles, intersection, messages, ncmd, notifVars, restVars>>

CreateNewMessage(t) ==
    /\ At(t, "msg_write")
    /\ LET tk == task[t]
       IN  /\ messages' = [messages EXCEPT ![tk.room] = @ + 1]
           /\ notifications' = CreateNotifications(notifications,
                                   members[tk.room], tk.room, "message")
           /\ Set(t, [tk EXCEPT !.pc = "rooms", !.mutated = TRUE,
                          !.nroom = IF members[tk.room] # {} THEN tk.room ELSE @])
    /\ UNCHANGED <<members, private, joinRequests, bubbles, intersection, ncmd, notifVars, restVars>>

\* create_new_message statement by statement, as the handlers of another
\* process see it: Message.objects.create and the SELECT of
\* `for user in self.room.members.all()` ...
CreateMessageRow(t) ==
    /\ At(t, "msg_write")
    /\ LET tk == task[t]
       IN  /\ messages' = [messages EXCEPT ![tk.room] = @ + 1]
           /\ Set(t, [tk EXCEPT !.pc = "msg_notify", !.mutated = TRUE,
                          !.to = members[tk.room]])
    /\ UNCHANGED <<members, private, joinRequests, bubbles, intersection,
                   notifications, ncmd, notifVars, restVars>>

\* ... then a Notification.objects.create for every user the SELECT returned
CreateMessageNotifications(t) ==
    /\ task[t].pc = "msg_notify"
    /\ LET tk == task[t]
       IN  /\ notifications' = CreateNotifications(notifications, tk.to,
                                                   tk.room, "message")
           /\ Set(t, [tk EXCEPT !.pc = "rooms",
                          !.nroom = IF tk.to # {} THEN tk.room ELSE @])
    /\ UNCHANGED <<members, private, joinRequests, bubbles, intersection,
                   messages, ncmd, notifVars, restVars>>

-----------------------------------------------------------------------------
(* update_location_bubble *)

\* the requests of the handler, in the order of its tasks list: for each
\* service region a walk request, then a transit request
RegionRequests ==
    [k \in 1..(2 * Len(ServiceRegions)) |->
        [region |-> ServiceRegions[(k + 1) \div 2],
         travel_mode |-> TravelModes[2 - (k % 2)]]]

\* what get_region_isochrone returns: None after a ContentTypeError or a
\* KeyError, else the isochrone, which covers the point or not
Malformed == [kind |-> "malformed", covers |-> FALSE, area |-> 0]

Outside == [kind |-> "feature", covers |-> FALSE, area |-> 0]

Covering(a) == [kind |-> "feature", covers |-> TRUE, area |-> a]

RegionResponses == {Malformed, Outside} \cup {Covering(a) : a \in Areas}

ResponseLists == [DOMAIN RegionRequests -> RegionResponses]

NoRegion == [k \in DOMAIN RegionRequests |-> Outside]

\* response lists that end in asia, in africa, in central_america, in no
\* region, and in a None among the results
FewResponseLists ==
    {[NoRegion EXCEPT ![5] = Covering(1)], [NoRegion EXCEPT ![1] = Covering(1)],
     [NoRegion EXCEPT ![3] = Covering(1)], NoRegion,
     [NoRegion EXCEPT ![1] = Malformed]}

AreaResponseLists ==
    {[NoRegion EXCEPT ![5] = Covering(1)], NoRegion,
     [NoRegion EXCEPT ![1] = Malformed]}

\* possible_regions: the requests whose isochrone covers the point, in order
RECURSIVE PossibleRegions(_, _)
PossibleRegions(responses, k) ==
    IF k > Len(responses) THEN <<>>
    ELSE (IF responses[k].covers
          THEN <<[name |-> RegionRequests[k].region,
                  travel_mode |-> RegionRequests[k].travel_mode,
                  area |-> responses[k].area]>>
          ELSE <<>>) \o PossibleRegions(responses, k + 1)

\* the loop over possible_regions[1:]
RECURSIVE PickRegion(_, _)
PickRegion(user_region, rest) ==
    IF rest = <<>> THEN user_region
    ELSE LET region == Head(rest)
         IN  PickRegion(IF /\ user_region.area < region.area
                           /\ user_region.travel_mode = "walk"
                           /\ region.travel_mode = "transit"
                           /\ region.name # "central_america"
                        THEN region ELSE user_region,
                        Tail(rest))

\* the outcome of the region requests: a region name, "notfound", or "crash"
\* when the loop over region_isochrones subscripts a None
RegionOutcome(responses) ==
    IF \E k \in DOMAIN responses : responses[k].kind = "malformed"
    THEN "crash"
    ELSE LET possible == PossibleRegions(responses, 1)
         IN  IF possible = <<>> THEN "notfound"
             ELSE PickRegion(Head(possible), Tail(possible)).name

ResolveRegion(t, responses) ==
    /\ task[t].pc = "ulb_region"
    /\ LET tk == task[t]
           outcome == RegionOutcome(responses)
       IN  Set(t, [tk EXCEPT
                  !.pc = IF outcome = "crash" THEN "failed"
                         ELSE IF outcome = "notfound" THEN "done"
                         ELSE "ulb_write",
                  !.resp = responses,
                  !.region = IF outcome \in Regions THEN outcome ELSE @,
                  !.sent = IF outcome = "notfound"
                           THEN @ \cup {"region_not_found"} ELSE @])
    /\ UNCHANGED <<dbVars, ncmd, notifVars, restVars>>

\* select_for_update: the row a running update_or_create found is locked
\* until its save
RowLocked(r, u) ==
    \E o \in TaskIds :
        task[o].pc = "ulb_save" /\ task[o].room = r /\ task[o].user = u

\* update_or_create, its SELECT: no row sends it to the INSERT, one row is
\* locked and updated, several raise MultipleObjectsReturned
GetLocationBubble(t) ==
    /\ At(t, "ulb_write")
    /\ ~ RowLocked(task[t].room, task[t].user)
    /\ LET tk == task[t]
           n == Len(bubbles[tk.room][tk.user])
       IN  Set(t, [tk EXCEPT !.pc = IF n = 0 THEN "ulb_create"
                                    ELSE IF n = 1 THEN "ulb_save"
                                    ELSE "failed"])
    /\ UNCHANGED <<dbVars, ncmd, notifVars, restVars>>

\* an update_location_bubble that notifies the members before the write
UpdateLocationBubble_NotifyFirst(t, hours, minutes, transportation) ==
    /\ task[t].pc \in {"ulb_create", "ulb_save"}
    /\ LET tk == task[t]
           new == Row(hours, minutes, transportation, tk.region, "p1")
           old == bubbles[tk.room][tk.user]
       IN  /\ notifications' = CreateNotifications(notifications,
                                   members[tk.room], tk.room, "user_location")
           /\ IF LocationBubbleClean(hours, minutes, transportation, tk.region)
              THEN /\ bubbles' = [bubbles EXCEPT ![tk.room][tk.user] =
                                     IF tk.pc = "ulb_save" /\ old # <<>>
                                     THEN [old EXCEPT ![1] = new]
                                     ELSE Append(old, new)]
                   /\ Set(t, [tk EXCEPT !.pc = "rooms", !.mutated = TRUE,
                                 !.payload = <<hours, minutes, transportation>>,
                                 !.created = (tk.pc = "ulb_create"),
                                 !.nroom = IF members[tk.room] # {}
                                           THEN tk.room ELSE @])
              ELSE /\ UNCHANGED bubbles
                   /\ Set(t, [tk EXCEPT !.pc = "failed", !.invalid = TRUE,
                                 !.payload = <<hours, minutes, transportation>>])
    /\ UNCHANGED <<members, private, joinRequests, intersection, messages, ncmd, notifVars, restVars>>

\* update_location_bubble(): the write of update_or_create (an INSERT, or an
\* UPDATE of the row its SELECT locked), LocationBubble.save running clean,
\* then update_user_location_notification
UpdateLocationBubble(t, hours, minutes, transportation) ==
    /\ task[t].pc \in {"ulb_create", "ulb_save"}
    /\ LET tk == task[t]
           new == Row(hours, minutes, transportation, tk.region, "p1")
           old == bubbles[tk.room][tk.user]
       IN  IF LocationBubbleClean(hours, minutes, transportation, tk.region)
           THEN /\ bubbles' = [bubbles EXCEPT ![tk.room][tk.user] =
                                  IF tk.pc = "ulb_save" /\ old # <<>>
                                  THEN [old EXCEPT ![1] = new]
                                  ELSE Append(old, new)]
                /\ notifications' = CreateNotifications(notifications,
                                        members[tk.room], tk.room,
                                        "user_location")
                /\ Set(t, [tk EXCEPT !.pc = "rooms", !.mutated = TRUE,
                              !.payload = <<hours, minutes, transportation>>,
                              !.created = (tk.pc = "ulb_create"),
                              !.nroom = IF members[tk.room] # {}
                                        THEN tk.room ELSE @])
           ELSE /\ UNCHANGED <<bubbles, notifications>>
                /\ Set(t, [tk EXCEPT !.pc = "failed", !.invalid = TRUE,
                              !.payload = <<hours, minutes, transportation>>])
    /\ UNCHANGED <<members, private, joinRequests, intersection, messages, ncmd, notifVars, restVars>>

\* the steps of handle_update_location_bubble after the authorization test, for payloads
\* and responses drawn from the given sets
LocationStep(t, hs, ms, trs, resps) ==
    \/ \E responses \in resps : ResolveRegion(t, responses)
    \/ GetLocationBubble(t)
    \/ \E h \in hs, m \in ms, tr \in trs : UpdateLocationBubble(t, h, m, tr)

-----------------------------------------------------------------------------
(* fetch_location_bubble: get_user_location_bubble_for_room *)

\* the filter and first(): no row is answered with {}, else the first row is
\* held while the place id is looked up
ReadUserLocationBubble(t) ==
    /\ At(t, "flb_read")
    /\ LET tk == task[t]
           rows == bubbles[tk.room][tk.user]
       IN  IF rows = <<>>
           THEN Set(t, [tk EXCEPT !.pc = "done",
                           !.sent = @ \cup {"location_bubble"}])
           ELSE Set(t, [tk EXCEPT !.pc = "flb_save", !.row = <<rows[1]>>])
    /\ UNCHANGED <<dbVars, ncmd, notifVars, restVars>>

\* a refreshed place id that differs is put on the row read, and save()
\* cleans that row and writes all its fields
RefreshPlaceId(t, refreshed) ==
    /\ task[t].pc = "flb_save"
    /\ ~ RowLocked(task[t].room, task[t].user)
    /\ LET tk == task[t]
           read == tk.row[1]
           saved == [read EXCEPT !.place_id = refreshed]
           rows == bubbles[tk.room][tk.user]
       IN  IF refreshed = read.place_id
           THEN /\ UNCHANGED bubbles
                /\ Set(t, [tk EXCEPT !.pc = "done",
                               !.sent = @ \cup {"location_bubble"}])
           ELSE IF LocationBubbleClean(saved.hours, saved.minutes,
                                       saved.transportation, saved.region)
           THEN /\ bubbles' = [bubbles EXCEPT ![tk.room][tk.user] =
                                  IF rows = <<>> THEN <<saved>>
                                  ELSE [rows EXCEPT ![1] = saved]]
                /\ Set(t, [tk EXCEPT !.pc = "done", !.row = <<saved>>,
                               !.mutated = TRUE,
                               !.sent = @ \cup {"location_bubble"}])
           ELSE /\ UNCHANGED bubbles
                /\ Set(t, [tk EXCEPT !.pc = "failed", !.invalid = TRUE])
    /\ UNCHANGED <<members, private, joinRequests, intersection, notifications,
                   messages, ncmd, notifVars, restVars>>

-----------------------------------------------------------------------------
(* exit_room *)

\* rooms_to_notify, read from the connection's room before leave_room
ExitRooms(t) ==
    /\ At(t, "ex_rooms")
    /\ Set(t, [task[t] EXCEPT !.pc = "ex_leave",
                  !.rooms = GetRoomsOfAllMembers(task[t].room)])
    /\ UNCHANGED <<dbVars, ncmd, notifVars, restVars>>

\* leave_room(room_id)
LeaveRoom(t) ==
    /\ At(t, "ex_leave")
    /\ task[t].arg \in roomRows
    /\ ~ RowLocked(task[t].arg, task[t].user)
    /\ LET tk == task[t]
           left == members[tk.arg] \ {tk.user}
           mem == [members EXCEPT ![tk.arg] = left]
           made == CreateNotifications(notifications, left, tk.arg, "user_left")
       IN  /\ members' = mem
           /\ bubbles' = [bubbles EXCEPT ![tk.arg][tk.user] = <<>>]
           /\ notifications' =
                  {n \in made : ~ (n.user = tk.user /\ n.room = tk.arg)}
           /\ Set(t, [tk EXCEPT !.pc = "fanout", !.mutated = TRUE,
                          !.nroom = IF left # {} THEN tk.arg ELSE @,
                          !.need = IF left # {}
                                   THEN RoomsOfAllMembers(mem, tk.arg) ELSE @])
    /\ UNCHANGED <<private, joinRequests, intersection, messages, ncmd, notifVars, restVars>>

\* leave_room(room_id) for an id without a Room row: Room.objects.get
\* raises Room.DoesNotExist
LeaveUnknownRoom(t) ==
    /\ At(t, "ex_leave")
    /\ task[t].arg \notin roomRows
    /\ Set(t, [task[t] EXCEPT !.pc = "failed"])
    /\ UNCHANGED <<dbVars, ncmd, notifVars, restVars>>

-----------------------------------------------------------------------------
(* approve_user, approve_all_users, reject_user *)

\* an approve_room_member that goes on to the broadcasts when no user has
\* the username
ApproveRoomMember_Swallow(t) ==
    /\ At(t, "ap_write")
    /\ LET tk == task[t]
           known == tk.arg \in Users
           mem == IF known THEN members[tk.room] \cup {tk.arg}
                  ELSE members[tk.room]
       IN  /\ members' = [members EXCEPT ![tk.room] = mem]
           /\ joinRequests' = IF known
                              THEN [joinRequests EXCEPT ![tk.room][tk.arg] = 0]
                              ELSE joinRequests
           /\ notifications' =
                  IF known THEN CreateNotifications(notifications, mem, tk.room,
                                                    "user_joined")
                  ELSE notifications
           /\ display_name' = NameOnJoin(tk.user, FALSE)
           /\ Set(t, [tk EXCEPT !.pc = "rooms", !.mutated = known,
                          !.nroom = IF known THEN tk.room ELSE @])
    /\ UNCHANGED <<private, bubbles, intersection, messages, ncmd, notifVars,
                   inboxVars, placeVars, layerVars>>

\* an approve_room_member that leaves the join requests in place
ApproveRoomMember_KeepRequest(t) ==
    /\ At(t, "ap_write")
    /\ LET tk == task[t]
           known == tk.arg \in Users
           mem == IF known THEN members[tk.room] \cup {tk.arg}
                  ELSE members[tk.room]
       IN  /\ members' = [members EXCEPT ![tk.room] = mem]
           /\ joinRequests' = joinRequests
           /\ notifications' =
                  IF known THEN CreateNotifications(notifications, mem, tk.room,
                                                    "user_joined")
                  ELSE notifications
           /\ display_name' = NameOnJoin(tk.user, FALSE)
           /\ Set(t, [tk EXCEPT !.pc = IF known THEN "rooms" ELSE "failed",
                          !.mutated = known,
                          !.nroom = IF known THEN tk.room ELSE @])
    /\ UNCHANGED <<private, bubbles, intersection, messages, ncmd, notifVars,
                   inboxVars, placeVars, layerVars>>

\* approve_room_member(username): User.objects.get raises User.DoesNotExist
\* for a username no user has; else the user is added, the join requests of
\* the user in the room are deleted and the members are notified
ApproveRoomMember(t) ==
    /\ At(t, "ap_write")
    /\ LET tk == task[t]
           known == tk.arg \in Users
           mem == IF known THEN members[tk.room] \cup {tk.arg}
                  ELSE members[tk.room]
       IN  /\ members' = [members EXCEPT ![tk.room] = mem]
           /\ joinRequests' = IF known
                              THEN [joinRequests EXCEPT ![tk.room][tk.arg] = 0]
                              ELSE joinRequests
           /\ notifications' =
                  IF known THEN CreateNotifications(notifications, mem, tk.room,
                                                    "user_joined")
                  ELSE notifications
           /\ display_name' = NameOnJoin(tk.user, FALSE)
           /\ Set(t, [tk EXCEPT !.pc = IF known THEN "rooms" ELSE "failed",
                          !.mutated = known,
                          !.nroom = IF known THEN tk.room ELSE @])
    /\ UNCHANGED <<private, bubbles, intersection, messages, ncmd, notifVars,
                   inboxVars, placeVars, layerVars>>

\* approve_all_room_members(): every requester is added and announced, then
\* every join request of the room is deleted
ApproveAllRoomMembers(t) ==
    /\ At(t, "aa_write")
    /\ LET tk == task[t]
           requesters == {u \in Users : joinRequests[tk.room][u] > 0}
           mem == members[tk.room] \cup requesters
       IN  /\ members' = [members EXCEPT ![tk.room] = mem]
           /\ joinRequests' = [joinRequests EXCEPT
                                   ![tk.room] = [u \in Users |-> 0]]
           /\ notifications' =
                  IF requesters # {}
                  THEN CreateNotifications(notifications, mem, tk.room,
                                           "user_joined")
                  ELSE notifications
           /\ display_name' = NameOnJoin(tk.user, FALSE)
           /\ Set(t, [tk EXCEPT !.pc = "rooms", !.mutated = requesters # {},
                          !.nroom = IF requesters # {} THEN tk.room ELSE @])
    /\ UNCHANGED <<private, bubbles, intersection, messages, ncmd, notifVars,
                   inboxVars, placeVars, layerVars>>

\* approve_all_room_members statement by statement, as the handlers of
\* another process see it: the loop over joinrequest_set.all(), which adds
\* and announces the requesters it has read ...
ApproveAllAdd(t) ==
    /\ At(t, "aa_write")
    /\ LET tk == task[t]
           requesters == {u \in Users : joinRequests[tk.room][u] > 0}
           mem == members[tk.room] \cup requesters
       IN  /\ members' = [members EXCEPT ![tk.room] = mem]
           /\ notifications' =
                  IF requesters # {}
                  THEN CreateNotifications(notifications, mem, tk.room,
                                           "user_joined")
                  ELSE notifications
           /\ display_name' = NameOnJoin(tk.user, FALSE)
           /\ Set(t, [tk EXCEPT !.pc = "aa_delete", !.mutated = requesters # {},
                          !.nroom = IF requesters # {} THEN tk.room ELSE @])
    /\ UNCHANGED <<private, joinRequests, bubbles, intersection, messages,
                   ncmd, notifVars, inboxVars, placeVars, layerVars>>

\* ... then joinrequest_set.all().delete(), a query of its own
ApproveAllDelete(t) ==
    /\ task[t].pc = "aa_delete"
    /\ joinRequests' = [joinRequests EXCEPT
                            ![task[t].room] = [u \in Users |-> 0]]
    /\ Set(t, [task[t] EXCEPT !.pc = "rooms"])
    /\ UNCHANGED <<members, private, bubbles, intersection, notifications,
                   messages, ncmd, notifVars, restVars>>

\* reject_room_member(username)
RejectRoomMember(t) ==
    /\ At(t, "rj_write")
    /\ LET tk == task[t]
           known == tk.arg \in Users
       IN  /\ joinRequests' = IF known
                              THEN [joinRequests EXCEPT ![tk.room][tk.arg] = 0]
                              ELSE joinRequests
           /\ Set(t, [tk EXCEPT !.pc = IF known THEN "fanout" ELSE "failed",
                          !.mutated = known /\ joinRequests[tk.room][tk.arg] > 0])
    /\ UNCHANGED <<members, private, bubbles, intersection, notifications,
                   messages, ncmd, notifVars, restVars>>

-----------------------------------------------------------------------------
(* calculate_intersection: get_isochrones *)

GetRoomLocationBubbles(t) ==
    /\ At(t, "ci_bubbles")
    /\ Set(t, [task[t] EXCEPT !.pc = "ci_members", !.bub = RoomRows(task[t].room)])
    /\ UNCHANGED <<dbVars, ncmd, notifVars, restVars>>

GetRoomMembers(t) ==
    /\ At(t, "ci_members")
    /\ LET tk == task[t]
           n == Cardinality(members[tk.room])
       IN  Set(t, [tk EXCEPT !.nmem = n,
                      !.pc = IF EnoughBubbles(n, Cardinality(tk.bub))
                             THEN "ci_gather" ELSE "area_del"])
    /\ UNCHANGED <<dbVars, ncmd, notifVars, restVars>>

\* what get_isochrone returns for one request: the feature of a JSON body,
\* None after a ContentTypeError, or a KeyError it does not catch
IsochroneResults ==
    {[kind |-> "feature", geom |-> g] : g \in Geoms}
    \cup {[kind |-> "none", geom |-> {}], [kind |-> "keyerror", geom |-> {}]}

\* the area of a geometry, and the intersection of the features returned
Area(g) == Cardinality(g)

FoldIsochrones(results) ==
    {c \in Cells : \A u \in DOMAIN results : c \in results[u].geom}

AllFeatures(results) == \A u \in DOMAIN results : results[u].kind = "feature"

\* a gather that folds the features on the server and deletes the stored
\* intersection when the fold is empty
GatherIsochrones_Folding(t, results) ==
    /\ task[t].pc = "ci_gather"
    /\ DOMAIN results = task[t].bub
    /\ LET tk == task[t]
           empty == AllFeatures(results) /\ Area(FoldIsochrones(results)) = 0
       IN  /\ intersection' = IF empty
                              THEN [intersection EXCEPT ![tk.room] = "none"]
                              ELSE intersection
           /\ IF \E u \in tk.bub : results[u].kind = "keyerror"
              THEN Set(t, [tk EXCEPT !.pc = "failed"])
              ELSE Set(t, [tk EXCEPT !.pc = "done", !.iso = results,
                              !.sent = @ \cup {"isochrones"},
                              !.emitted = @ + 1])
    /\ UNCHANGED <<members, private, joinRequests, bubbles, notifications,
                   messages, ncmd, notifVars, restVars>>

\* asyncio.gather over one request per row read, then the isochrones event
GatherIsochrones(t, results) ==
    /\ task[t].pc = "ci_gather"
    /\ DOMAIN results = task[t].bub
    /\ LET tk == task[t]
       IN  IF \E u \in tk.bub : results[u].kind = "keyerror"
           THEN Set(t, [tk EXCEPT !.pc = "failed"])
           ELSE Set(t, [tk EXCEPT !.pc = "done", !.iso = results,
                           !.sent = @ \cup {"isochrones"},
                           !.emitted = @ + 1])
    /\ UNCHANGED <<dbVars, ncmd, notifVars, restVars>>

\* the same batch request by request. asyncio.ensure_future(get_isochrone)
\* for every row read, before the gather is awaited
Pending == [kind |-> "pending", geom |-> {}]

IssueIsochroneRequests(t) ==
    /\ task[t].pc = "ci_gather"
    /\ Set(t, [task[t] EXCEPT !.pc = "ci_await",
                  !.req = [row \in task[t].bub |-> Pending]])
    /\ UNCHANGED <<dbVars, ncmd, notifVars, restVars>>

\* one get_isochrone request ends; it is a task of its own, which runs on
\* when the handler that created it has ended
CompleteIsochroneRequest(t, row, result) ==
    /\ task[t].pc \in {"ci_await", "failed"}
    /\ task[t].req[row] = Pending
    /\ Set(t, [task[t] EXCEPT !.req[row] = result])
    /\ UNCHANGED <<dbVars, ncmd, notifVars, restVars>>

\* await asyncio.gather(*tasks): the first exception of a request is raised
\* in the handler at once; without one the handler goes on when every
\* request has ended, and sends the isochrones event
AwaitIsochrones(t) ==
    /\ task[t].pc = "ci_await"
    /\ LET tk == task[t]
       IN  \/ /\ \E row \in DOMAIN tk.req : tk.req[row].kind = "keyerror"
              /\ Set(t, [tk EXCEPT !.pc = "failed"])
           \/ /\ \A row \in DOMAIN tk.req :
                     tk.req[row].kind \in {"feature", "none"}
              /\ Set(t, [tk EXCEPT !.pc = "done", !.iso = tk.req,
                             !.sent = @ \cup {"isochrones"},
                             !.emitted = @ + 1])
    /\ UNCHANGED <<dbVars, ncmd, notifVars, restVars>>

-----------------------------------------------------------------------------
(* Saving one Notification: Notification.save runs full_clean *)

NotificationSave(kinds) ==
    /\ Cardinality(stored) < MaxSaved
    /\ attempt' = kinds
    /\ stored' = IF NotificationClean(kinds) THEN stored \cup {kinds} ELSE stored
    /\ UNCHANGED <<dbVars, task, ncmd, restVars>>

-----------------------------------------------------------------------------
(* fetch_user_notifications *)

\* one of the create_..._notification_for_all_room_members functions running
\* in room r: a row for every member
NotifyRoomMembers(r, kind) ==
    /\ clock < MaxStamps
    /\ members[r] # {}
    /\ NotificationClean({kind})
    /\ clock' = clock + 1
    /\ inbox' = inbox \cup {NotificationRow(u, r, kind, clock + 1) :
                                u \in members[r]}
    /\ notifications' = CreateNotifications(notifications, members[r], r, kind)
    /\ fetched' = [u \in Users |-> IF u \in members[r] THEN <<>> ELSE fetched[u]]
    /\ UNCHANGED <<members, private, joinRequests, bubbles, intersection,
                   messages, task, ncmd, notifVars, display_name, placeVars,
                   layerVars>>

\* list.sort(key=...) on <<key, item>> pairs: a stable ascending sort
RECURSIVE InsertSorted(_, _)
InsertSorted(x, sorted) ==
    IF sorted = <<>> THEN <<x>>
    ELSE IF x[1] < Head(sorted)[1] THEN <<x>> \o sorted
    ELSE <<Head(sorted)>> \o InsertSorted(x, Tail(sorted))

RECURSIVE SortPairs(_)
SortPairs(pairs) ==
    IF pairs = <<>> THEN <<>>
    ELSE InsertSorted(pairs[Len(pairs)],
                      SortPairs(SubSeq(pairs, 1, Len(pairs) - 1)))

Items(pairs) == [i \in DOMAIN pairs |-> pairs[i][2]]

\* the order of the room ids, as order_by("room") sees them
RoomOrder == <<"r1", "r2">>

\* order_by("room", "-timestamp").distinct("room") over the rows of u: for
\* each room in order, the row of the greatest timestamp
RECURSIVE LatestPerRoom(_, _, _)
LatestPerRoom(rows, u, k) ==
    IF k > Len(RoomOrder) THEN <<>>
    ELSE LET mine == {n \in rows : n.user = u /\ n.room = RoomOrder[k]}
             top == {n \in mine : \A m \in mine : m.timestamp <= n.timestamp}
         IN  (IF mine = {} THEN <<>>
              ELSE <<[room |-> RoomOrder[k],
                      timestamp |-> (CHOOSE n \in top : TRUE).timestamp,
                      read |-> (CHOOSE n \in top : TRUE).read]>>)
             \o LatestPerRoom(rows, u, k + 1)

\* a listing sorted by read first and by timestamp second
GetUserNotifications_ReadThenTime(rows, u) ==
    LET found == LatestPerRoom(rows, u, 1)
        byRead == Items(SortPairs([i \in DOMAIN found |->
                      <<IF found[i].read THEN 1 ELSE 0, found[i]>>]))
    IN  Items(SortPairs([i \in DOMAIN byRead |->
                      <<0 - byRead[i].timestamp, byRead[i]>>]))

\* get_user_notifications after its update: the listing, sorted by
\* timestamp descending and then by read
GetUserNotifications(rows, u) ==
    LET found == LatestPerRoom(rows, u, 1)
        byTime == Items(SortPairs([i \in DOMAIN found |->
                      <<0 - found[i].timestamp, found[i]>>]))
    IN  Items(SortPairs([i \in DOMAIN byTime |->
                      <<IF byTime[i].read THEN 1 ELSE 0, byTime[i]>>]))

\* an update that marks the rows of the user in every room
MarkRead_AllRooms(rows, u, r) ==
    {IF n.user = u THEN [n EXCEPT !.read = TRUE] ELSE n : n \in rows}

\* self.user.notification_set.filter(room=self.room).update(read=True)
MarkRead(rows, u, r) ==
    {IF n.user = u /\ n.room = r THEN [n EXCEPT !.read = TRUE] ELSE n :
         n \in rows}

\* the highlight events for the kinds among the unread rows
Highlights(kinds) ==
    (IF "message" \in kinds THEN {"highlight_chat"} ELSE {})
    \cup (IF kinds \cap {"added_place", "voted_place"} # {}
          THEN {"highlight_vote"} ELSE {})
    \cup (IF "user_location" \in kinds THEN {"highlight_area"} ELSE {})

\* get_user_unread_notifications_for_room: the unread rows of the room from
\* before the connection was opened (last_logged_in, set by connect)
GetUserUnreadNotificationsForRoom(t, login) ==
    /\ At(t, "fun_unread")
    /\ login \in 0..clock
    /\ LET tk == task[t]
           unread == {n \in inbox : /\ n.user = tk.user /\ n.room = tk.room
                                    /\ n.timestamp <= login /\ ~ n.read}
       IN  Set(t, [tk EXCEPT !.pc = "fun_list", !.login = login,
                      !.sent = @ \cup Highlights({n.kind : n \in unread})])
    /\ UNCHANGED <<dbVars, ncmd, notifVars, restVars>>

\* get_user_notifications, then the notifications event
FetchUserNotifications(t) ==
    /\ At(t, "fun_list")
    /\ LET tk == task[t]
           marked == MarkRead(inbox, tk.user, tk.room)
           listed == GetUserNotifications(marked, tk.user)
       IN  /\ inbox' = marked
           /\ fetched' = [fetched EXCEPT ![tk.user] =
                              [room |-> tk.room, list |-> listed]]
           /\ Set(t, [tk EXCEPT !.pc = "done", !.list = listed,
                          !.sent = @ \cup {"notifications"}])
    /\ UNCHANGED <<dbVars, ncmd, notifVars, clock, display_name, placeVars,
                   layerVars>>

-----------------------------------------------------------------------------
(* save_place, vote_place, fetch_places *)

\* rows of the room with this place_id
PlacesOf(r, place_id) == {p \in places : p.room = r /\ p.place_id = place_id}

\* save_place: Place.objects.update_or_create on (room, lng, lat), then
\* added_place_notification and, with update_timestamp, last_saved
SavePlaceRows(rows, r, place_id, coord, ts) ==
    LET found == {p \in rows : p.room = r /\ p.coord = coord}
    IN  IF found = {}
        THEN rows \cup {[id |-> Cardinality(rows) + 1, room |-> r,
                         place_id |-> place_id, coord |-> coord,
                         last_saved |-> ts]}
        ELSE {IF p \in found
              THEN [p EXCEPT !.place_id = place_id, !.last_saved = ts]
              ELSE p : p \in rows}

SavePlace(t) ==
    /\ At(t, "sp_write")
    /\ clock < MaxStamps
    /\ LET tk == task[t]
       IN  /\ places' = SavePlaceRows(places, tk.room, tk.arg.place_id,
                                      tk.arg.coord, clock + 1)
           /\ clock' = clock + 1
           /\ notifications' = CreateNotifications(notifications,
                                   members[tk.room], tk.room, "added_place")
           /\ Set(t, [tk EXCEPT !.pc = "sp_rooms", !.mutated = TRUE,
                          !.bcast = @ \cup {<<tk.room, "refresh_places">>},
                          !.nroom = IF members[tk.room] # {} THEN tk.room ELSE @])
    /\ UNCHANGED <<members, private, joinRequests, bubbles, intersection,
                   messages, ncmd, notifVars, display_name, inbox, fetched,
                   votes, layerVars>>

\* the end of handle_save_place: get_rooms_of_all_members and the
\* refresh_notifications group_sends
SavePlaceRooms(t) ==
    /\ At(t, "sp_rooms")
    /\ LET tk == task[t]
           rs == GetRoomsOfAllMembers(tk.room)
       IN  Set(t, [tk EXCEPT !.pc = "done", !.rooms = rs,
                      !.need = IF tk.nroom # "none" THEN rs ELSE @,
                      !.bcast = @ \cup RefreshNotifications(rs)])
    /\ UNCHANGED <<dbVars, ncmd, notifVars, restVars>>

\* Vote.objects.update_or_create(room, user, defaults={"place": place})
UpdateOrCreateVote(rows, r, u, place) ==
    {v \in rows : ~ (v.room = r /\ v.user = u)}
    \cup {[room |-> r, user |-> u, place |-> place]}

\* vote_for_place: Place.objects.get raises unless one row has the place
\* id; voted_place_notification runs after the Vote is written and its
\* first Notification is turned down by the model
VoteForPlace(t) ==
    /\ At(t, "vp_write")
    /\ LET tk == task[t]
           found == PlacesOf(tk.room, tk.arg)
       IN  IF Cardinality(found) = 1
           THEN /\ votes' = UpdateOrCreateVote(votes, tk.room, tk.user,
                                (CHOOSE p \in found : TRUE).id)
                /\ Set(t, [tk EXCEPT !.mutated = TRUE,
                               !.pc = IF members[tk.room] # {}
                                         /\ ~ NotificationClean({"voted_place"})
                                      THEN "failed" ELSE "vp_rooms"])
           ELSE /\ votes' = votes
                /\ Set(t, [tk EXCEPT !.pc = "failed"])
    /\ notifications' = IF Cardinality(PlacesOf(task[t].room, task[t].arg)) = 1
                        THEN CreateNotifications(notifications,
                                 members[task[t].room], task[t].room,
                                 "voted_place")
                        ELSE notifications
    /\ UNCHANGED <<members, private, joinRequests, bubbles, intersection,
                   messages, ncmd, notifVars, display_name, inboxVars, places,
                   layerVars>>

\* the end of vote_place
VotePlaceRooms(t) ==
    /\ At(t, "vp_rooms")
    /\ LET tk == task[t]
           rs == GetRoomsOfAllMembers(tk.room)
       IN  Set(t, [tk EXCEPT !.pc = "done", !.rooms = rs,
                      !.bcast = @ \cup RefreshNotifications(rs)
                                  \cup {<<tk.room, "refresh_places">>}])
    /\ UNCHANGED <<dbVars, ncmd, notifVars, restVars>>

\* the rows of the query of fetch_places: the places of the room joined to
\* their votes and grouped by the case on vote__user, so a place holds a row
\* for the votes of the user and a row for the other votes
PlaceGroups(r, u) ==
    LET Mine(p) == {v \in votes : v.place = p.id /\ v.user = u}
        Others(p) == {v \in votes : v.place = p.id /\ v.user # u}
        Group(p, voted, n) ==
            [place_id |-> p.place_id, coord |-> p.coord,
             last_saved |-> p.last_saved, total_votes |-> n,
             user_voted_for |-> voted]
    IN  UNION {
          (IF Mine(p) # {} THEN {Group(p, TRUE, Cardinality(Mine(p)))} ELSE {})
          \cup (IF Others(p) # {}
                THEN {Group(p, FALSE, Cardinality(Others(p)))} ELSE {})
          \cup (IF Mine(p) = {} /\ Others(p) = {}
                THEN {Group(p, FALSE, 0)} ELSE {})
          : p \in {q \in places : q.room = r}}

RECURSIVE SetToSeq(_)
SetToSeq(S) ==
    IF S = {} THEN <<>>
    ELSE LET x == CHOOSE y \in S : TRUE IN <<x>> \o SetToSeq(S \ {x})

\* the slice [:10] of the ordered rows
PageSize == 10

\* order_by("-user_voted_for", "-total_votes", "-last_saved")[:10]
RankedPlaces(r, u) ==
    LET rows == SetToSeq(PlaceGroups(r, u))
        Key(g) == 0 - ( (IF g.user_voted_for THEN 10000 ELSE 0)
                        + (g.total_votes * 100) + g.last_saved )
        ranked == Items(SortPairs([i \in DOMAIN rows |->
                                      <<Key(rows[i]), rows[i]>>]))
    IN  SubSeq(ranked, 1, IF Len(ranked) < PageSize THEN Len(ranked)
                          ELSE PageSize)

RECURSIVE SumVotes(_, _)
SumVotes(ranked, is) ==
    IF is = {} THEN 0
    ELSE LET i == CHOOSE j \in is : TRUE
         IN  ranked[i].total_votes + SumVotes(ranked, is \ {i})

\* a merge that drops every later row of the first row's place id
MergeTopPlace_EveryDuplicate(ranked) ==
    IF Len(ranked) > 0 /\ ranked[1].user_voted_for
    THEN LET dup == {i \in 2..Len(ranked) :
                         ranked[i].place_id = ranked[1].place_id}
             top == [ranked[1] EXCEPT
                        !.total_votes = @ + SumVotes(ranked, dup)]
             merged == [ranked EXCEPT ![1] = top]
             Keep[i \in 0..Len(merged)] ==
                 IF i = 0 THEN <<>>
                 ELSE IF i \in dup THEN Keep[i - 1]
                 ELSE Append(Keep[i - 1], merged[i])
         IN  Keep[Len(merged)]
    ELSE ranked

\* the loop of fetch_places over places[1:] and its return
MergeTopPlace(ranked) ==
    IF Len(ranked) > 0 /\ ranked[1].user_voted_for
    THEN LET dup == {i \in 2..Len(ranked) :
                         ranked[i].place_id = ranked[1].place_id}
             top == [ranked[1] EXCEPT
                        !.total_votes = @ + SumVotes(ranked, dup)]
             merged == [ranked EXCEPT ![1] = top]
         IN  IF dup = {} THEN ranked
             ELSE LET skip_index == CHOOSE i \in dup : \A j \in dup : j <= i
                  IN  SubSeq(merged, 1, skip_index - 1)
                      \o SubSeq(merged, skip_index + 1, Len(merged))
    ELSE ranked

\* fetch_places()
FetchPlaces(t) ==
    /\ At(t, "fp_list")
    /\ LET tk == task[t]
       IN  Set(t, [tk EXCEPT !.pc = "fp_details",
                      !.list = MergeTopPlace(RankedPlaces(tk.room, tk.user))])
    /\ UNCHANGED <<dbVars, ncmd, notifVars, restVars>>

\* the rest of handle_fetch_places: the details of each listed place are
\* requested and gathered; a response with another place id makes get_place
\* call save_place(..., update_timestamp=False) for the coordinates of the
\* response, here those of the row.  refreshed is the listed row answered
\* with the place id new_id, 0 when every id is answered as it was sent.
PlaceDetails(t, refreshed, new_id) ==
    /\ task[t].pc = "fp_details"
    /\ refreshed \in 0..Len(task[t].list)
    /\ LET tk == task[t]
           changed == refreshed # 0 /\ tk.list[refreshed].place_id # new_id
       IN  /\ places' =
                  IF changed
                  THEN {IF p.room = tk.room /\ p.coord = tk.list[refreshed].coord
                        THEN [p EXCEPT !.place_id = new_id] ELSE p : p \in places}
                  ELSE places
           /\ notifications' =
                  IF changed
                  THEN CreateNotifications(notifications, members[tk.room],
                                           tk.room, "added_place")
                  ELSE notifications
           /\ Set(t, [tk EXCEPT !.pc = "done", !.sent = @ \cup {"places"}])
    /\ UNCHANGED <<members, private, joinRequests, bubbles, intersection,
                   messages, ncmd, notifVars, display_name, inboxVars, votes,
                   layerVars>>

-----------------------------------------------------------------------------
\* the steps of the handlers
AccessStep(t) ==
    \/ Check(t)
    \/ FetchMessages(t)
    \/ FetchJoinRequests(t)
    \/ GetJoinRequest(t)
    \/ CreateJoinRequest(t)
    \/ GetRooms(t)
    \/ FanOut(t)
    \/ JoinPrevious(t)
    \/ UpdateRoomMembers(t)
    \/ DeleteIntersectionForRoom(t)
    \/ BroadcastRefreshArea(t)
    \/ UpdatePrivacy(t)
    \/ CreateNewMessage(t)
    \/ Reap(t)

AreaStep(t) ==
    \/ Check(t)
    \/ GetRooms(t)
    \/ FanOut(t)
    \/ JoinPrevious(t)
    \/ UpdateRoomMembers(t)
    \/ DeleteIntersectionForRoom(t)
    \/ UpdateRoomIntersection(t)
    \/ BroadcastRefreshArea(t)
    \/ LocationStep(t, AreaHours, AreaMinutes, AreaTransportations,
                    AreaResponseLists)
    \/ ExitRooms(t)
    \/ LeaveRoom(t)
    \/ GetRoomLocationBubbles(t)
    \/ GetRoomMembers(t)
    \/ \E res \in [task[t].bub -> IsochroneResults] : GatherIsochrones(t, res)
    \/ Reap(t)

FanoutStep(t) ==
    \/ Check(t)
    \/ GetRooms(t)
    \/ FanOut(t)
    \/ JoinPrevious(t)
    \/ UpdateRoomMembers(t)
    \/ DeleteIntersectionForRoom(t)
    \/ BroadcastRefreshArea(t)
    \/ ExitRooms(t)
    \/ LeaveRoom(t)
    \/ Reap(t)

Step(t) ==
    \/ AccessStep(t)
    \/ AreaStep(t)
    \/ LocationStep(t, Hours, Minutes, Transportations, ResponseLists)
    \/ ReadUserLocationBubble(t)
    \/ \E p \in PlaceIds : RefreshPlaceId(t, p)

\* worker processes are interchangeable: a command goes to the process of a
\* running task or to the first process
ProcsFor == {"w1"} \cup {w \in Workers : \E t \in TaskIds :
                            task[t].cmd # "idle" /\ task[t].proc = "w1"}

Client(ws, us, rs, cmds) ==
    \E w \in ws, u \in us, r \in rs, cmd \in cmds :
        \E a \in ArgsOf(cmd) \cap (rs \cup {"none", "private", "public"}
                                     \cup AreaPayloads) :
            Receive(w, u, r, cmd, a)

\* the whole system
Next ==
    \/ ncmd < MaxCmds /\ Client(Workers, Users, Rooms, Cmds)
    \/ \E t \in TaskIds : Step(t)
    \/ \E k \in SUBSET NotificationKinds : NotificationSave(k)

Spec == Init /\ [][Next]_vars

\* access control and join requests in one room
AccessCmds == {"update_privacy", "join_room", "fetch_allowed_status",
               "fetch_messages", "fetch_join_requests", "message"}

NextAccess ==
    \/ ncmd < MaxAccessCmds /\ Client(ProcsFor, {"u1", "u2"}, {"r1"}, AccessCmds)
    \/ \E t \in TaskIds : AccessStep(t)

SpecAccess == Init /\ [][NextAccess]_vars

\* members, location bubbles and the stored intersection of one public room
AreaCmds == {"join_room", "update_location_bubble", "calculate_intersection",
             "update_intersection", "delete_intersection", "exit_room"}

NextArea ==
    \/ ncmd < MaxAreaCmds /\ Client({"w1"}, {"u1", "u2"}, {"r1"}, AreaCmds)
    \/ \E t \in TaskIds : AreaStep(t)

SpecArea == Init /\ [][NextArea]_vars

\* the events that invalidate the intersection of a room of three users
JoinCmds == {"join_room", "update_location_bubble", "exit_room",
             "calculate_intersection"}

JoinStep(t) ==
    \/ Check(t)
    \/ GetRooms(t)
    \/ FanOut(t)
    \/ JoinPrevious(t)
    \/ UpdateRoomMembers(t)
    \/ DeleteIntersectionForRoom(t)
    \/ BroadcastRefreshArea(t)
    \/ LocationStep(t, AreaHours, AreaMinutes, AreaTransportations,
                    AreaResponseLists)
    \/ ExitRooms(t)
    \/ LeaveRoom(t)
    \/ GetRoomLocationBubbles(t)
    \/ GetRoomMembers(t)
    \/ \E res \in [task[t].bub -> IsochroneResults] : GatherIsochrones(t, res)
    \/ Reap(t)

NextJoin ==
    \/ ncmd < MaxJoinCmds /\ Client({"w1"}, Users, {"r1"}, JoinCmds)
    \/ \E t \in TaskIds : JoinStep(t)

SpecJoin == Init /\ [][NextJoin]_vars

\* recomputation in a room whose two members have both saved a location
\* bubble: the state SpecArea reaches after join_room and
\* update_location_bubble by u1 and by u2
FoldStart ==
    /\ members = [r \in Rooms |-> IF r = "r1" THEN {"u1", "u2"} ELSE {}]
    /\ private = [r \in Rooms |-> FALSE]
    /\ joinRequests = [r \in Rooms |-> [u \in Users |-> 0]]
    /\ bubbles = [r \in Rooms |-> [u \in Users |->
                      IF r = "r1" /\ u \in {"u1", "u2"}
                      THEN <<Row(1, 0, "walk", "asia", "p1")>> ELSE <<>>]]
    /\ intersection = [r \in Rooms |-> "none"]
    /\ notifications = {[user |-> u, room |-> "r1", kind |-> k] :
                            u \in {"u1", "u2"},
                            k \in {"user_joined", "user_location"}}
    /\ messages = [r \in Rooms |-> 0]
    /\ task = [t \in TaskIds |-> IdleTask]

\* the rest of the state is as in Init
RestStart ==
    /\ display_name = [u \in Users |-> ""]
    /\ inbox = {}
    /\ clock = 0
    /\ fetched = [u \in Users |-> <<>>]
    /\ places = {}
    /\ votes = {}
    /\ roomRows = Rooms
    /\ conns = [c \in Conns |-> Closed]
    /\ groups = {}

InitFold ==
    /\ FoldStart
    /\ ncmd = 0
    /\ attempt = {}
    /\ stored = {}
    /\ RestStart

FoldCmds == {"calculate_intersection", "update_intersection",
             "delete_intersection"}

FoldStep(t) ==
    \/ Check(t)
    \/ DeleteIntersectionForRoom(t)
    \/ UpdateRoomIntersection(t)
    \/ BroadcastRefreshArea(t)
    \/ GetRoomLocationBubbles(t)
    \/ GetRoomMembers(t)
    \/ \E res \in [task[t].bub -> IsochroneResults] : GatherIsochrones(t, res)
    \/ Reap(t)

NextFold ==
    \/ ncmd < MaxFoldCmds /\ Client({"w1"}, {"u1", "u2"}, {"r1"}, FoldCmds)
    \/ \E t \in TaskIds : FoldStep(t)

SpecFold == InitFold /\ [][NextFold]_vars

\* the location bubble rows of one user in one room, written and refreshed
\* by connections on two worker processes
ProfileCmds == {"join_room", "update_location_bubble",
                "fetch_location_bubble"}

ProfileStep(t) ==
    \/ Check(t)
    \/ JoinPrevious(t)
    \/ UpdateRoomMembers(t)
    \/ LocationStep(t, Hours, Minutes, Transportations, FewResponseLists)
    \/ ReadUserLocationBubble(t)
    \/ \E p \in PlaceIds : RefreshPlaceId(t, p)
    \/ GetRooms(t)
    \/ FanOut(t)
    \/ Reap(t)

NextProfile ==
    \/ ncmd < MaxProfileCmds /\ Client(ProcsFor, {"u1"}, {"r1"}, ProfileCmds)
    \/ \E t \in TaskIds : ProfileStep(t)

SpecProfile == Init /\ [][NextProfile]_vars

\* region resolution over every list of responses
RegionStep(t) ==
    \/ Check(t)
    \/ LocationStep(t, AreaHours, AreaMinutes, Transportations, ResponseLists)
    \/ GetRooms(t)
    \/ FanOut(t)
    \/ Reap(t)

NextRegion ==
    \/ ncmd < MaxRegionCmds
          /\ Client({"w1"}, {"u1"}, {"r1"}, {"update_location_bubble"})
    \/ \E t \in TaskIds : RegionStep(t)

SpecRegion == Init /\ [][NextRegion]_vars

\* joining and leaving across two rooms
FanoutCmds == {"join_room", "exit_room"}

NextFanout ==
    \/ ncmd < MaxFanoutCmds /\ Client({"w1"}, {"u1", "u2"}, Rooms, FanoutCmds)
    \/ \E t \in TaskIds : FanoutStep(t)

SpecFanout == Init /\ [][NextFanout]_vars

\* the validation of a Notification write
NextNotification == \E k \in SUBSET NotificationKinds : NotificationSave(k)

SpecNotification == Init /\ [][NextNotification]_vars

\* the notifications of the members of two rooms, created and fetched
InboxStart ==
    /\ members = [r \in Rooms |-> IF r = "r1" THEN {"u1", "u2"} ELSE {"u1"}]
    /\ private = [r \in Rooms |-> FALSE]
    /\ joinRequests = [r \in Rooms |-> [u \in Users |-> 0]]
    /\ bubbles = [r \in Rooms |-> [u \in Users |-> <<>>]]
    /\ intersection = [r \in Rooms |-> "none"]
    /\ notifications = {}
    /\ messages = [r \in Rooms |-> 0]
    /\ task = [t \in TaskIds |-> IdleTask]

InitInbox ==
    /\ InboxStart
    /\ ncmd = 0
    /\ attempt = {}
    /\ stored = {}
    /\ RestStart

InboxStep(t) ==
    \/ \E login \in 0..MaxStamps : GetUserUnreadNotificationsForRoom(t, login)
    \/ FetchUserNotifications(t)
    \/ Reap(t)

NextInbox ==
    \/ ncmd < MaxInboxCmds
          /\ Client({"w1"}, {"u1"}, Rooms, {"fetch_user_notifications"})
    \/ \E r \in Rooms, kind \in {"message", "user_location"} :
           NotifyRoomMembers(r, kind)
    \/ \E t \in TaskIds : InboxStep(t)

SpecInbox == InitInbox /\ [][NextInbox]_vars

\* the places of a room and the votes of its two members
PlacesStart ==
    /\ members = [r \in Rooms |-> IF r = "r1" THEN {"u1", "u2"} ELSE {}]
    /\ private = [r \in Rooms |-> FALSE]
    /\ joinRequests = [r \in Rooms |-> [u \in Users |-> 0]]
    /\ bubbles = [r \in Rooms |-> [u \in Users |-> <<>>]]
    /\ intersection = [r \in Rooms |-> "none"]
    /\ notifications = {}
    /\ messages = [r \in Rooms |-> 0]
    /\ task = [t \in TaskIds |-> IdleTask]

InitPlaces ==
    /\ PlacesStart
    /\ ncmd = 0
    /\ attempt = {}
    /\ stored = {}
    /\ RestStart

PlaceStep(t) ==
    \/ Check(t)
    \/ SavePlace(t)
    \/ SavePlaceRooms(t)
    \/ VoteForPlace(t)
    \/ VotePlaceRooms(t)
    \/ FetchPlaces(t)
    \/ \E i \in 0..2, p \in PlaceIds : PlaceDetails(t, i, p)
    \/ Reap(t)

PlaceClient(us, rs) ==
    \E u \in us, r \in rs :
        \/ \E p \in PlaceIds, c \in Coords :
               Receive("w1", u, r, "save_place", [place_id |-> p, coord |-> c])
        \/ \E p \in PlaceIds : Receive("w1", u, r, "vote_place", p)
        \/ Receive("w1", u, r, "fetch_places", "none")

NextPlaces ==
    \/ ncmd < MaxPlaceCmds /\ PlaceClient({"u1", "u2"}, {"r1", "r2"})
    \/ \E t \in TaskIds : PlaceStep(t)

SpecPlaces == InitPlaces /\ [][NextPlaces]_vars

\* approval and rejection in a private room with one member, next to a
\* public room; the names no user, room or place has
UnknownUser == "nobody"

UnknownRoom == "r9"

ApproveStart ==
    /\ members = [r \in Rooms |-> IF r = "r1" THEN {"u1"} ELSE {}]
    /\ private = [r \in Rooms |-> r = "r1"]
    /\ joinRequests = [r \in Rooms |-> [u \in Users |-> 0]]
    /\ bubbles = [r \in Rooms |-> [u \in Users |-> <<>>]]
    /\ intersection = [r \in Rooms |-> "none"]
    /\ notifications = {}
    /\ messages = [r \in Rooms |-> 0]
    /\ task = [t \in TaskIds |-> IdleTask]

InitApprove ==
    /\ ApproveStart
    /\ ncmd = 0
    /\ attempt = {}
    /\ stored = {}
    /\ RestStart

ApproveStep(t) ==
    \/ Check(t)
    \/ GetJoinRequest(t)
    \/ CreateJoinRequest(t)
    \/ GetRooms(t)
    \/ FanOut(t)
    \/ JoinPrevious(t)
    \/ UpdateRoomMembers(t)
    \/ DeleteIntersectionForRoom(t)
    \/ BroadcastRefreshArea(t)
    \/ ApproveRoomMember(t)
    \/ ApproveAllRoomMembers(t)
    \/ RejectRoomMember(t)
    \/ ExitRooms(t)
    \/ LeaveUnknownRoom(t)
    \/ VoteForPlace(t)
    \/ Reap(t)

ApproveClient ==
    \/ \E u \in {"u1", "u2"}, r \in Rooms : Receive("w1", u, r, "join_room", "none")
    \/ \E a \in {"u2", UnknownUser}, cmd \in {"approve_user", "reject_user"} :
           Receive("w1", "u1", "r1", cmd, a)
    \/ Receive("w1", "u1", "r1", "approve_all_users", "none")
    \/ Receive("w1", "u1", "r1", "exit_room", UnknownRoom)
    \/ Receive("w1", "u1", "r1", "vote_place", "p1")

NextApprove ==
    \/ ncmd < MaxApproveCmds /\ ApproveClient
    \/ \E t \in TaskIds : ApproveStep(t)

SpecApprove == InitApprove /\ [][NextApprove]_vars

\* the user of each connection
UserOf == [c \in Conns |-> IF c = "c1" THEN "u1" ELSE "u2"]

\* connections to one room under either spelling of its id, before the room
\* has a row
InitLayer ==
    /\ members = [r \in Rooms |-> {}]
    /\ private = [r \in Rooms |-> FALSE]
    /\ joinRequests = [r \in Rooms |-> [u \in Users |-> 0]]
    /\ bubbles = [r \in Rooms |-> [u \in Users |-> <<>>]]
    /\ intersection = [r \in Rooms |-> "none"]
    /\ notifications = {}
    /\ messages = [r \in Rooms |-> 0]
    /\ task = [t \in TaskIds |-> IdleTask]
    /\ ncmd = 0
    /\ attempt = {}
    /\ stored = {}
    /\ display_name = [u \in Users |-> ""]
    /\ inbox = {}
    /\ clock = 0
    /\ fetched = [u \in Users |-> <<>>]
    /\ places = {}
    /\ votes = {}
    /\ roomRows = {}
    /\ conns = [c \in Conns |-> Closed]
    /\ groups = {}

LayerStep(t) ==
    \/ Check(t)
    \/ UpdateRoomIntersection(t)
    \/ BroadcastRefreshArea(t)
    \/ Reap(t)

NextLayer ==
    \/ \E c \in Conns, name \in Spellings :
           ConnectGetRoom(c, "w1", UserOf[c], name)
    \/ \E c \in Conns : ConnectGroupAdd(c)
    \/ \E c \in Conns : Disconnect(c)
    \/ ncmd < MaxLayerCmds
          /\ \E c \in Conns : ReceiveOn(c, "update_intersection", "a1")
    \/ \E t \in TaskIds : LayerStep(t)

SpecLayer == InitLayer /\ [][NextLayer]_vars

\* recomputation by the two members of a room over connections that close;
\* the event loop runs every task that can take a step
InitRecompute ==
    /\ members = [r \in Rooms |-> IF r = "r1" THEN {"u1", "u2"} ELSE {}]
    /\ private = [r \in Rooms |-> FALSE]
    /\ joinRequests = [r \in Rooms |-> [u \in Users |-> 0]]
    /\ \E located \in {{"u1"}, {"u1", "u2"}} :
           bubbles = [r \in Rooms |-> [u \in Users |->
                         IF r = "r1" /\ u \in located
                         THEN <<Row(1, 0, "walk", "asia", "p1")>> ELSE <<>>]]
    /\ intersection = [r \in Rooms |-> "none"]
    /\ notifications = {}
    /\ messages = [r \in Rooms |-> 0]
    /\ task = [t \in TaskIds |-> IdleTask]
    /\ ncmd = 0
    /\ attempt = {}
    /\ stored = {}
    /\ RestStart

NextRecompute ==
    \/ \E c \in Conns : ConnectGetRoom(c, "w1", UserOf[c], "r1")
    \/ \E c \in Conns : ConnectGroupAdd(c)
    \/ \E c \in Conns : Disconnect(c)
    \/ ncmd < MaxRecomputeCmds
          /\ \E c \in Conns :
                 \/ ReceiveOn(c, "calculate_intersection", "none")
                 \/ ReceiveOn(c, "update_intersection", "a1")
    \/ \E t \in TaskIds : FoldStep(t)

SpecRecompute ==
    /\ InitRecompute
    /\ [][NextRecompute]_vars
    /\ \A t \in TaskIds : WF_vars(FoldStep(t))

\* the isochrone batch of calculate_intersection, request by request
InitBatch ==
    /\ FoldStart
    /\ ncmd = 0
    /\ attempt = {}
    /\ stored = {}
    /\ RestStart

BatchStep(t) ==
    \/ Check(t)
    \/ GetRoomLocationBubbles(t)
    \/ GetRoomMembers(t)
    \/ IssueIsochroneRequests(t)
    \/ \E row \in DOMAIN task[t].req, result \in IsochroneResults :
           CompleteIsochroneRequest(t, row, result)
    \/ AwaitIsochrones(t)

NextBatch ==
    \/ ncmd < MaxBatchCmds
          /\ Client({"w1"}, {"u1", "u2"}, {"r1"}, {"calculate_intersection"})
    \/ \E t \in TaskIds : BatchStep(t)

SpecBatch == InitBatch /\ [][NextBatch]_vars

\* update_intersection commands received one after the other on one
\* connection: the first carries a1, the later ones a2
OrderStep(t) ==
    \/ Check(t)
    \/ UpdateRoomIntersection(t)
    \/ BroadcastRefreshArea(t)
    \/ Reap(t)

NextOrder ==
    \/ ncmd < MaxOrderCmds
          /\ Receive("w1", "u1", "r1", "update_intersection",
                     IF ncmd = 0 THEN "a1" ELSE "a2")
    \/ \E t \in TaskIds : OrderStep(t)

SpecOrder == Init /\ [][NextOrder]_vars

\* fetch_places in a room that holds a place at each coordinate and up to
\* one vote of every user
InitMerge ==
    /\ members = [r \in Rooms |-> IF r = "r1" THEN {"u1", "u2"} ELSE {}]
    /\ private = [r \in Rooms |-> FALSE]
    /\ joinRequests = [r \in Rooms |-> [u \in Users |-> 0]]
    /\ bubbles = [r \in Rooms |-> [u \in Users |-> <<>>]]
    /\ intersection = [r \in Rooms |-> "none"]
    /\ notifications = {}
    /\ messages = [r \in Rooms |-> 0]
    /\ task = [t \in TaskIds |-> IdleTask]
    /\ ncmd = 0
    /\ attempt = {}
    /\ stored = {}
    /\ display_name = [u \in Users |-> ""]
    /\ inbox = {}
    /\ fetched = [u \in Users |-> <<>>]
    /\ roomRows = Rooms
    /\ conns = [c \in Conns |-> Closed]
    /\ groups = {}
    /\ clock = 2
    /\ \E ids \in [Coords -> PlaceIds] :
           places = {[id |-> c, room |-> "r1", place_id |-> ids[c],
                      coord |-> c, last_saved |-> c] : c \in Coords}
    /\ \E choice \in [Users -> Coords \cup {0}] :
           votes = {[room |-> "r1", user |-> u, place |-> choice[u]] :
                       u \in {x \in Users : choice[x] # 0}}

MergeStep(t) ==
    \/ Check(t)
    \/ FetchPlaces(t)
    \/ \E i \in 0..2, p \in PlaceIds : PlaceDetails(t, i, p)
    \/ Reap(t)

NextMerge ==
    \/ ncmd < MaxMergeCmds
          /\ \E u \in {"u1", "u2"} :
                 Receive("w1", u, "r1", "fetch_places", "none")
    \/ \E t \in TaskIds : MergeStep(t)

SpecMerge == InitMerge /\ [][NextMerge]_vars

\* join_room sent twice by a user with a connection on each worker process
\* to a public room of one other member
InitRejoin ==
    /\ members = [r \in Rooms |-> IF r = "r1" THEN {"u2"} ELSE {}]
    /\ private = [r \in Rooms |-> FALSE]
    /\ joinRequests = [r \in Rooms |-> [u \in Users |-> 0]]
    /\ bubbles = [r \in Rooms |-> [u \in Users |-> <<>>]]
    /\ intersection = [r \in Rooms |-> "none"]
    /\ notifications = {}
    /\ messages = [r \in Rooms |-> 0]
    /\ task = [t \in TaskIds |-> IdleTask]
    /\ ncmd = 0
    /\ attempt = {}
    /\ stored = {}
    /\ RestStart

RejoinStep(t) ==
    \/ Check(t)
    \/ JoinPrevious(t)
    \/ ReadRoomMembers(t)
    \/ AddRoomMember(t)
    \/ DeleteIntersectionForRoom(t)
    \/ BroadcastRefreshArea(t)
    \/ GetRooms(t)
    \/ FanOut(t)
    \/ Reap(t)

NextRejoin ==
    \/ ncmd < MaxRejoinCmds
          /\ \E w \in Workers : Receive(w, "u1", "r1", "join_room", "none")
    \/ \E t \in TaskIds : RejoinStep(t)

SpecRejoin == InitRejoin /\ [][NextRejoin]_vars

\* exit_room for either room, sent on connections to a public room with one
\* member and to a private room with another
InitExit ==
    /\ members = [r \in Rooms |-> IF r = "r1" THEN {"u1"} ELSE {"u2"}]
    /\ private = [r \in Rooms |-> r = "r2"]
    /\ joinRequests = [r \in Rooms |-> [u \in Users |-> 0]]
    /\ bubbles = [r \in Rooms |-> [u \in Users |-> <<>>]]
    /\ intersection = [r \in Rooms |-> "none"]
    /\ notifications = {}
    /\ messages = [r \in Rooms |-> 0]
    /\ task = [t \in TaskIds |-> IdleTask]
    /\ ncmd = 0
    /\ attempt = {}
    /\ stored = {}
    /\ RestStart

ExitStep(t) ==
    \/ Check(t)
    \/ ExitRooms(t)
    \/ LeaveRoom(t)
    \/ FanOut(t)
    \/ Reap(t)

NextExit ==
    \/ ncmd < MaxExitCmds
          /\ \E u \in {"u1", "u2"}, r \in Rooms, target \in Rooms :
                 Receive("w1", u, r, "exit_room", target)
    \/ \E t \in TaskIds : ExitStep(t)

SpecExit == InitExit /\ [][NextExit]_vars

\* messages and exit_room in a room of two members, each member with a
\* connection on a worker process of its own
InitLeave ==
    /\ members = [r \in Rooms |-> IF r = "r1" THEN {"u1", "u2"} ELSE {}]
    /\ private = [r \in Rooms |-> FALSE]
    /\ joinRequests = [r \in Rooms |-> [u \in Users |-> 0]]
    /\ bubbles = [r \in Rooms |-> [u \in Users |-> <<>>]]
    /\ intersection = [r \in Rooms |-> "none"]
    /\ notifications = {}
    /\ messages = [r \in Rooms |-> 0]
    /\ task = [t \in TaskIds |-> IdleTask]
    /\ ncmd = 0
    /\ attempt = {}
    /\ stored = {}
    /\ RestStart

LeaveStep(t) ==
    \/ Check(t)
    \/ CreateMessageRow(t)
    \/ CreateMessageNotifications(t)
    \/ ExitRooms(t)
    \/ LeaveRoom(t)
    \/ GetRooms(t)
    \/ FanOut(t)
    \/ Reap(t)

NextLeave ==
    \/ ncmd < MaxLeaveCmds
          /\ \/ Receive("w1", "u1", "r1", "message", "none")
             \/ Receive("w2", "u2", "r1", "exit_room", "r1")
             \/ Receive("w2", "u2", "r1", "message", "none")
    \/ \E t \in TaskIds : LeaveStep(t)

SpecLeave == InitLeave /\ [][NextLeave]_vars

\* approve_all_users by the member of a private room on one worker process
\* while two other users ask to join on another
ApproveAllStep(t) ==
    \/ Check(t)
    \/ GetJoinRequest(t)
    \/ CreateJoinRequest(t)
    \/ GetRooms(t)
    \/ FanOut(t)
    \/ JoinPrevious(t)
    \/ UpdateRoomMembers(t)
    \/ ApproveAllAdd(t)
    \/ ApproveAllDelete(t)
    \/ Reap(t)

NextApproveAll ==
    \/ ncmd < MaxApproveAllCmds
          /\ \/ Receive("w1", "u1", "r1", "approve_all_users", "none")
             \/ \E u \in {"u2", "u3"} :
                    Receive("w2", u, "r1", "join_room", "none")
    \/ \E t \in TaskIds : ApproveAllStep(t)

SpecApproveAll == InitApprove /\ [][NextApproveAll]_vars

-----------------------------------------------------------------------------
(* Claims *)

DataEvents == {"fetching_message", "requests", "isochrones"}

RefreshAreaSent(tk) == <<tk.room, "refresh_area">> \in tk.bcast

\* C1: a command handled while its issuer is a non-member of a private room
\* returns no room data to the issuer and makes no mutation of its own.
C1_RejectedCommandDoesNothing ==
    \A t \in TaskIds :
        task[t].na = "yes" =>
            /\ task[t].sent \cap DataEvents = {}
            /\ ~ task[t].mutated

\* C2: when the handler of a room command that found its issuer a non-member
\* of a private room has finished, a JoinRequest of the issuer for the room
\* exists, not_allowed went to the issuer and refresh_join_requests to the room.
C2_RejectionFilesJoinRequest ==
    \A t \in TaskIds :
        (task[t].pc = "done" /\ task[t].denied = "yes") =>
            /\ joinRequests[task[t].room][task[t].user] >= 1
            /\ "not_allowed" \in task[t].sent
            /\ <<task[t].room, "refresh_join_requests">> \in task[t].bcast

\* C3: there is never more than one JoinRequest row of a member for a room.
C3_OneJoinRequestPerMemberAndRoom ==
    \A r \in Rooms, u \in Users : joinRequests[r][u] <= 1

EnoughProfiles(r) ==
    \/ Cardinality(BubbleOwners(r) \cap members[r]) >= 2
    \/ (Cardinality(members[r]) = 1 /\ members[r] \subseteq BubbleOwners(r))

\* C4: a room has a stored intersection only if at least two of its members
\* have a location bubble, or its only member has one.
C4_IntersectionOnlyWithEnoughProfiles ==
    \A r \in Rooms : intersection[r] # "none" => EnoughProfiles(r)

\* C5: a handler that has written or deleted the stored intersection of its
\* room either is about to broadcast refresh_area to that room or has done
\* so, and refresh_area is broadcast by no handler that has not written.
C5_AreaChangeThenRefreshArea ==
    \A t \in TaskIds :
        /\ task[t].wrote =>
               (task[t].pc = "area_bcast" \/ RefreshAreaSent(task[t]))
        /\ RefreshAreaSent(task[t]) => task[t].wrote

C5_Witness ==
    \E t \in TaskIds :
        /\ task[t].cmd = "update_intersection"
        /\ task[t].pc = "done"
        /\ task[t].wrote
        /\ intersection[task[t].room] = task[t].arg
        /\ RefreshAreaSent(task[t])

RequiredProfiles(nmembers) == IF nmembers = 1 THEN 1 ELSE 2

\* C6: calculate_intersection by an allowed issuer deletes the stored
\* intersection and broadcasts refresh_area when the room has fewer profiles
\* than required, and otherwise requests isochrones and deletes nothing.
C6_DeletesOnlyBelowRequiredProfiles ==
    \A t \in TaskIds :
        ( /\ task[t].cmd = "calculate_intersection"
          /\ task[t].pc \in {"done", "failed"}
          /\ task[t].denied = "no"
          /\ task[t].nmem >= 1 ) =>
            IF Cardinality(task[t].bub) < RequiredProfiles(task[t].nmem)
            THEN task[t].wrote /\ RefreshAreaSent(task[t])
            ELSE ~ task[t].wrote

Recalculate(tk, r) == <<r, "recalculate_intersection">> \in tk.bcast

\* C7 as stated: a join_room that adds its issuer to a room with another
\* member who has a location bubble emits recalculate_intersection to the
\* room or recomputes the stored intersection itself.
C7_JoinStartsRecomputation ==
    \A t \in TaskIds :
        ( /\ task[t].cmd = "join_room"
          /\ task[t].pc = "done"
          /\ task[t].added
          /\ task[t].profiled ) =>
            (Recalculate(task[t], task[t].room) \/ task[t].wrote)

\* C7: exit_room and a saved location bubble are followed by
\* recalculate_intersection to the room (for exit_room the room named by
\* room_id); calculate_intersection requests the isochrones or deletes the
\* stored intersection; join_room never emits recalculate_intersection and
\* deletes the stored intersection (then broadcasts refresh_area) exactly
\* when it added its issuer and had read a member list of one.
C7_InvalidatingEvents ==
    \A t \in TaskIds :
        (task[t].pc = "done" /\ task[t].denied = "no") =>
            /\ task[t].cmd = "join_room" =>
                   /\ task[t].wrote <=> (task[t].added /\ task[t].prev = 1)
                   /\ task[t].wrote => RefreshAreaSent(task[t])
                   /\ ~ Recalculate(task[t], task[t].room)
            /\ task[t].cmd = "exit_room" => Recalculate(task[t], task[t].arg)
            /\ (task[t].cmd = "update_location_bubble" /\ task[t].mutated) =>
                   Recalculate(task[t], task[t].room)
            /\ task[t].cmd = "calculate_intersection" =>
                   (("isochrones" \in task[t].sent) <=> ~ task[t].wrote)

C7_Witness ==
    \E t \in TaskIds :
        /\ task[t].cmd = "join_room"
        /\ task[t].pc = "done"
        /\ task[t].added
        /\ task[t].profiled
        /\ task[t].prev = 2
        /\ ~ task[t].wrote

EmptyFold(tk) ==
    /\ tk.cmd = "calculate_intersection"
    /\ tk.pc = "done"
    /\ "isochrones" \in tk.sent
    /\ Cardinality(tk.bub) >= 2
    /\ AllFeatures(tk.iso)
    /\ Area(FoldIsochrones(tk.iso)) = 0

C9_NotifiesRoomsOfAllMembers ==
    \A t \in TaskIds :
        (task[t].pc = "done" /\ task[t].nroom # "none") =>
            \A x \in task[t].need :
                <<x, "refresh_notifications">> \in task[t].bcast

AllRows ==
    UNION {{bubbles[r][u][i] : i \in DOMAIN bubbles[r][u]} :
              r \in Rooms, u \in Users}

Budget(row) == (row.hours * 3600) + (row.minutes * 60)

Finished(tk, cmd) == tk.cmd = cmd /\ tk.pc = "done"

\* C11: every LocationBubble row has a time budget above 0 and of at most
\* 7200 seconds, whether written by the insert or the update of
\* update_location_bubble or by the save of a refreshed place id.
C11_BudgetWithinTwoHours ==
    \A row \in AllRows : Budget(row) > 0 /\ Budget(row) <= 7200

C11_Witness ==
    \E t, o \in TaskIds :
        /\ Finished(task[t], "update_location_bubble")
        /\ task[t].mutated /\ ~ task[t].created
        /\ Finished(task[o], "fetch_location_bubble")
        /\ task[o].mutated
        /\ AllRows # {}

NoTransitData == {"africa", "central_america"}

\* C12: no LocationBubble row has transportation transit with region africa
\* or central_america, and an update_location_bubble whose payload and
\* resolved region make that pair is rejected.
C12_NoTransitWhereNoData ==
    /\ \A row \in AllRows :
           ~ (row.transportation = "transit" /\ row.region \in NoTransitData)
    /\ \A t \in TaskIds :
           ( /\ task[t].payload # <<>>
             /\ task[t].payload[3] = "transit"
             /\ task[t].region \in NoTransitData ) => task[t].invalid

C12_Witness ==
    \E t \in TaskIds :
        /\ task[t].cmd = "update_location_bubble"
        /\ task[t].invalid
        /\ task[t].payload = <<1, 0, "transit">>
        /\ task[t].region = "central_america"

\* C13: the step at which update_location_bubble is rejected by validation
\* changes no LocationBubble row and creates no Notification row, and the
\* rejected handler broadcasts nothing, then or later.
C13_RejectedWriteChangesNothing ==
    [][\A t \in TaskIds :
           /\ (task[t].pc \in {"ulb_create", "ulb_save"}
                  /\ task'[t].pc = "failed") =>
                  /\ bubbles' = bubbles
                  /\ notifications' = notifications
                  /\ task'[t].bcast = {}
           /\ task[t].invalid => task'[t].bcast = {}]_vars

C13_Witness ==
    \E t \in TaskIds :
        /\ task[t].cmd = "update_location_bubble"
        /\ task[t].invalid
        /\ task[t].pc = "failed"
        /\ task[t].user \in members[task[t].room]
        /\ bubbles[task[t].room][task[t].user] # <<>>

\* C14: a handler whose write was rejected by validation does not end with
\* an unhandled error, and it has sent a reply to its issuer.
C14_ValidationFailureReplied ==
    \A t \in TaskIds :
        task[t].invalid => (task[t].pc # "failed" /\ task[t].sent # {})

\* C15: there is at most one LocationBubble row per (member, room).
C15_OneRowPerMemberAndRoom ==
    \A r \in Rooms, u \in Users : Len(bubbles[r][u]) <= 1

WellFormed(responses) ==
    /\ responses # <<>>
    /\ \A k \in DOMAIN responses : responses[k].kind = "feature"

\* the candidates of a handler that has its responses
CandidateSet(tk) ==
    LET possible == PossibleRegions(tk.resp, 1)
    IN  {possible[i] : i \in DOMAIN possible}

Ended(tk, cmd) == tk.cmd = cmd /\ tk.pc \in {"done", "failed"}

RegionNotFound(tk) == "region_not_found" \in tk.sent

\* C16: an allowed update_location_bubble ends in exactly one of two ways:
\* a row of the issuer holds the one region chosen, or region_not_found went
\* to the issuer and nothing was written or broadcast.
C16_RegionOrNotFound ==
    \A t \in TaskIds :
        (Ended(task[t], "update_location_bubble") /\ task[t].denied = "no") =>
            LET tk == task[t]
                rows == bubbles[tk.room][tk.user]
                persisted == /\ tk.mutated
                             /\ \E i \in DOMAIN rows : rows[i].region = tk.region
                notfound == RegionNotFound(tk) /\ ~ tk.mutated /\ tk.bcast = {}
            IN  persisted # notfound

\* C17: when the candidates are a walk candidate and a transit candidate of
\* larger area, the region chosen is the transit candidate's, unless that
\* region is africa or central_america, and then the walk candidate's.
C17_TransitPreferredWhereSupported ==
    \A t \in TaskIds :
        (task[t].cmd = "update_location_bubble" /\ WellFormed(task[t].resp)) =>
            \A w, x \in CandidateSet(task[t]) :
                ( /\ CandidateSet(task[t]) = {w, x}
                  /\ w.travel_mode = "walk"
                  /\ x.travel_mode = "transit"
                  /\ x.area > w.area ) =>
                    task[t].region = IF x.name \in NoTransitData
                                     THEN w.name ELSE x.name

\* C18: when two or more candidates all have the same travel mode, the
\* region chosen is that of a candidate of the largest area.
C18_LargestAreaAmongSameMode ==
    \A t \in TaskIds :
        ( /\ task[t].cmd = "update_location_bubble"
          /\ WellFormed(task[t].resp)
          /\ Cardinality(CandidateSet(task[t])) >= 2
          /\ \A c, d \in CandidateSet(task[t]) :
                 c.travel_mode = d.travel_mode ) =>
            \E c \in CandidateSet(task[t]) :
                /\ c.name = task[t].region
                /\ \A d \in CandidateSet(task[t]) : d.area <= c.area

\* C19: a calculate_intersection that requested the isochrones of the rows
\* it read ends with the isochrones event, whatever the service answered.
C19_BatchSurvivesBadResponse ==
    \A t \in TaskIds :
        ( /\ Ended(task[t], "calculate_intersection")
          /\ task[t].denied = "no"
          /\ ~ task[t].wrote ) =>
            (task[t].pc = "done" /\ "isochrones" \in task[t].sent)

\* C20: an update_location_bubble that got a malformed response to one of
\* its region requests ends with a saved row or with region_not_found.
C20_ResolutionSurvivesBadResponse ==
    \A t \in TaskIds :
        ( /\ Ended(task[t], "update_location_bubble")
          /\ task[t].resp # <<>>
          /\ \E k \in DOMAIN task[t].resp :
                 task[t].resp[k].kind = "malformed" ) =>
            (task[t].mutated \/ RegionNotFound(task[t]))

FetchStep(t) == task[t].pc = "fun_list" /\ task'[t].pc = "done"

VotesOn(r, place_id) ==
    Cardinality({v \in votes : \E p \in PlacesOf(r, place_id) : v.place = p.id})

\* C23: the list fetch_places returns never holds two rows of one place id,
\* and the total_votes of a row is the number of votes on its place id.
C23_OneRowPerPlaceId ==
    [][\A t \in TaskIds :
           (task[t].pc = "fp_list" /\ task'[t].pc = "fp_details") =>
               LET l == task'[t].list
               IN  /\ \A i, j \in DOMAIN l :
                          l[i].place_id = l[j].place_id => i = j
                   /\ \A i \in DOMAIN l :
                          l[i].total_votes = VotesOn(task[t].room, l[i].place_id)]_vars

\* C24: there is at most one Vote per room and member, and once a member's
\* vote_place for a place of the room has run, the member's Vote refers to
\* that place.
C24_LastVoteWins ==
    [][/\ \A r \in Rooms, u \in Users :
              Cardinality({v \in votes' : v.room = r /\ v.user = u}) <= 1
       /\ \A t \in TaskIds :
              ( /\ task[t].pc = "vp_write" /\ task'[t].pc # "vp_write"
                /\ PlacesOf(task[t].room, task[t].arg) # {} ) =>
                  \E v \in votes' :
                      /\ v.room = task[t].room /\ v.user = task[t].user
                      /\ \E p \in PlacesOf(task[t].room, task[t].arg) :
                             v.place = p.id]_vars

\* the rows the handlers persist
Persisted == <<members, private, joinRequests, bubbles, intersection,
               notifications, messages, display_name, inbox, places, votes>>

\* a command that names a user, a place or a room that does not exist
UnknownReference(tk) ==
    \/ tk.cmd \in {"approve_user", "reject_user"} /\ tk.arg \notin Users
    \/ tk.cmd = "vote_place" /\ PlacesOf(tk.room, tk.arg) = {}
    \/ tk.cmd = "exit_room" /\ tk.arg \notin roomRows

\* C25: no step of a command that names a nonexistent user, place or room
\* changes a persisted row or creates a Notification, and the command has
\* broadcast to no group.
C25_UnknownReferenceDropped ==
    [][\A t \in TaskIds :
           (task[t].cmd # "idle" /\ task'[t] # task[t]
                /\ UnknownReference(task[t])) =>
               /\ Persisted' = Persisted
               /\ task'[t].bcast = {}]_vars

\* approve_user for an unknown username has ended in User.DoesNotExist in a
\* room that holds a join request
C25_Witness ==
    \E t \in TaskIds :
        /\ task[t].cmd = "approve_user"
        /\ task[t].arg = UnknownUser
        /\ task[t].denied = "no"
        /\ task[t].pc = "failed"
        /\ joinRequests[task[t].room]["u2"] > 0

\* C26: a step that makes a user a member of a room leaves the user with a
\* stored display name that is not empty.
C26_JoinedMemberHasDisplayName ==
    [][\A r \in Rooms, u \in Users :
           (u \notin members[r] /\ u \in members'[r]) =>
               display_name'[u] # ""]_vars

\* C30: the step of approve_user(u) leaves no JoinRequest of u in the room
\* and u a member; the step of reject_user(u) leaves no JoinRequest of u in
\* the room and the members as they were; the step of approve_all_users
\* leaves no JoinRequest in the room and removes no member.
C30_RequestsGoneAfterDecision ==
    [][\A t \in TaskIds :
           LET tk == task[t]
               r == tk.room
           IN  /\ (tk.pc = "ap_write" /\ task'[t].pc = "rooms") =>
                      /\ joinRequests'[r][tk.arg] = 0
                      /\ members'[r] = members[r] \cup {tk.arg}
               /\ (tk.pc = "rj_write" /\ task'[t].pc = "fanout") =>
                      /\ joinRequests'[r][tk.arg] = 0
                      /\ members' = members
               /\ (tk.pc = "aa_write" /\ task'[t].pc = "rooms") =>
                      /\ \A u \in Users : joinRequests'[r][u] = 0
                      /\ members[r] \subseteq members'[r]]_vars

\* u2, whose join request was pending, has been approved
C30_Witness ==
    \E t \in TaskIds :
        /\ task[t].cmd = "approve_user"
        /\ task[t].pc = "done"
        /\ task[t].mutated
        /\ "u2" \in members["r1"]
        /\ joinRequests["r1"]["u2"] = 0
        /\ \E n \in notifications : n.kind = "join_request" /\ n.room = "r1"

\* C27: a refresh_area broadcast to the room of a connection reaches
\* every connection that is open on that room and no connection that has
\* disconnected.
C27_BroadcastReachesTheConnected ==
    [][\A t \in TaskIds :
           (task[t].pc = "area_bcast" /\ task'[t].pc # "area_bcast") =>
               \A c \in Conns :
                   /\ (conns[c].state = "open" /\ conns[c].room = task[t].room)
                          => c \in task'[t].heard
                   /\ conns[c].state = "gone" => c \notin task'[t].heard]_vars

\* a calculate_intersection task of a connection that has disconnected
InFlightOfGone(t) ==
    /\ task[t].cmd = "calculate_intersection"
    /\ task[t].conn # "none"
    /\ conns[task[t].conn].state = "gone"
    /\ task[t].pc \notin {"done", "failed"}

C29_OneEventAfterTheWholeBatch ==
    \A t \in TaskIds :
        (/\ task[t].cmd = "calculate_intersection"
         /\ DOMAIN task[t].req # {}
         /\ task[t].pc \in {"done", "failed"})
            => /\ task[t].emitted = 1
               /\ \A row \in DOMAIN task[t].req : task[t].req[row] # Pending

\* C31: the steps of one update_intersection handler keep their order
\* (the check, then the write, then the broadcast) and its write stores
\* its own payload, whatever the handlers of other commands of the
\* connection have done; nothing orders the handlers among themselves.
C31_OrderWithinOneHandlerOnly ==
    [][\A t \in TaskIds :
           task'[t].cmd = "update_intersection" =>
               /\ task'[t].wrote => task'[t].denied = "no"
               /\ task'[t].bcast # {} => task'[t].wrote
               /\ (task[t].cmd = "update_intersection"
                   /\ ~ task[t].wrote /\ task'[t].wrote)
                      => intersection'[task[t].room] = task[t].arg]_vars

\* the second command has written and broadcast, the first has written after
\* it and has not broadcast yet: the stored value is the first command's
C31_Witness ==
    \E first, second \in TaskIds :
        /\ task[first].cmd = "update_intersection" /\ task[first].arg = "a1"
        /\ task[second].cmd = "update_intersection" /\ task[second].arg = "a2"
        /\ task[second].pc = "done" /\ task[second].wrote
        /\ <<"r1", "refresh_area">> \in task[second].bcast
        /\ task[first].pc = "area_bcast" /\ task[first].wrote
        /\ task[first].bcast = {}
        /\ intersection["r1"] = "a1"

\* C32: fetch_places merges into the first ranked row only, and only when
\* the requester voted for it: the votes of every later row of its place
\* id are added to it, the last such row alone is left out, and every
\* other row is returned as ranked.
C32_MergeIntoFirstRowOnly ==
    [][\A t \in TaskIds :
           (task[t].pc = "fp_list" /\ task'[t].pc = "fp_details") =>
               LET ranked == RankedPlaces(task[t].room, task[t].user)
                   out == task'[t].list
                   dup == IF Len(ranked) > 0 /\ ranked[1].user_voted_for
                          THEN {i \in 2..Len(ranked) :
                                   ranked[i].place_id = ranked[1].place_id}
                          ELSE {}
               IN  IF dup = {} THEN out = ranked
                   ELSE LET last == CHOOSE i \in dup : \A j \in dup : j <= i
                        IN  /\ Len(out) = Len(ranked) - 1
                            /\ out[1] = [ranked[1] EXCEPT !.total_votes =
                                   ranked[1].total_votes + SumVotes(ranked, dup)]
                            /\ \A i \in 2..Len(out) :
                                   out[i] = ranked[IF i < last THEN i
                                                   ELSE i + 1]]_vars

\* a list returned after a merge of two later rows still holds a second row
\* of the first row's place id
C32_Witness ==
    \E t \in TaskIds :
        /\ task[t].cmd = "fetch_places"
        /\ task[t].pc = "fp_details"
        /\ Len(task[t].list) = 2
        /\ task[t].list[1].user_voted_for
        /\ task[t].list[1].total_votes >= 2
        /\ task[t].list[2].place_id = task[t].list[1].place_id

\* C33: however often a user sends join_room, every member of the room
\* holds at most one member-joined Notification for it: the rows are
\* created by the one join_room that adds the user.
C33_JoinedNotifiedOnce ==
    \A r \in Rooms, u \in Users :
        Cardinality({n \in inbox : n.room = r /\ n.user = u
                                   /\ n.kind = "user_joined"}) <= 1

\* C34: join_request Notification rows are written only in the step that
\* creates the JoinRequest, and a join_room or fetch_allowed_status that
\* was turned away and found the request pending ends having sent no
\* refresh_notifications, having broadcast refresh_join_requests to the
\* room and having replied not_allowed.
C34_RetryOnlyRefreshesRequests ==
    [][/\ (\E n \in notifications' \ notifications : n.kind = "join_request")
              => \E t \in TaskIds : ~ task[t].created /\ task'[t].created
       /\ \A t \in TaskIds :
              (/\ task'[t].cmd \in {"join_room", "fetch_allowed_status"}
               /\ task'[t].denied = "yes"
               /\ ~ task'[t].created
               /\ task'[t].pc \in {"done", "failed"})
                  => /\ \A x \in Rooms :
                            <<x, "refresh_notifications">> \notin task'[t].bcast
                     /\ <<task'[t].room, "refresh_join_requests">>
                            \in task'[t].bcast
                     /\ "not_allowed" \in task'[t].sent]_vars

\* C35: a leave_room for a room the issuer is not a member of creates no
\* Notification in that room and deletes no row, and the exit_room that
\* ran it broadcasts nothing to that room.
C35_ExitTouchesOnlyOwnRoom ==
    [][\A t \in TaskIds :
           (/\ task[t].cmd = "exit_room"
            /\ task[t].pc = "ex_leave" /\ task'[t].pc # "ex_leave"
            /\ task[t].user \notin members[task[t].arg])
               => /\ notifications' = notifications
                  /\ bubbles' = bubbles
                  /\ members' = members
                  /\ \A e \in FanOutEvents(task'[t]) : e[1] # task[t].arg]_vars

\* C36: the recipient of every Notification row is a member of the room
\* of the row.
C36_RecipientsAreMembers ==
    \A n \in notifications : n.user \in members[n.room]

\* C37: every LocationBubble row of a room belongs to a member of the
\* room, so the rows calculate_intersection counts are rows of members.
C37_ProfilesBelongToMembers ==
    /\ \A r \in Rooms : BubbleOwners(r) \subseteq members[r]
    /\ \A t \in TaskIds :
           task[t].pc = "ci_gather" =>
               \A row \in task[t].bub : row[1] \in members[task[t].room]

\* C38: a step that adds a user to the members of a room that is private
\* when the step is taken is the approve_user or approve_all_users write
\* of a handler whose issuer is a member of the room.
C38_PrivateRoomGrowsByApprovalOnly ==
    [][\A r \in Rooms :
           (private[r] /\ ~ (members'[r] \subseteq members[r])) =>
               \E t \in TaskIds :
                   /\ task[t].cmd \in {"approve_user", "approve_all_users"}
                   /\ task[t].pc \in {"ap_write", "aa_write"}
                   /\ task'[t].pc # task[t].pc
                   /\ task[t].room = r
                   /\ task[t].user \in members[r]]_vars

\* C39: every JoinRequest that approve_all_users deletes is the request of
\* a user who is a member of the room when it has been deleted.
C39_DeletedRequestsWereApproved ==
    [][\A t \in TaskIds :
           (task[t].pc = "aa_delete" /\ task'[t].pc # "aa_delete") =>
               \A u \in Users :
                   (/\ joinRequests[task[t].room][u] > 0
                    /\ joinRequests'[task[t].room][u] = 0)
                       => u \in members'[task[t].room]]_vars

\* C40: no step of a fetch_places handler creates a Place row or a
\* Notification, whatever the place-detail service answers.
C40_FetchPlacesReadsOnly ==
    [][\A t \in TaskIds :
           (task[t].cmd = "fetch_places" /\ task'[t] # task[t]) =>
               /\ {p.id : p \in places'} = {p.id : p \in places}
               /\ notifications' = notifications]_vars

====
